---- MODULE Spec2Model ----
(***************************************************************************)
(* Tab Whisperer (fox): the command orchestrator of background.js and the  *)
(* agentic tool-calling executor of lib/llm-client.js, as a state machine. *)
(*                                                                         *)
(* JavaScript runs one task at a time.  An action of this model is one     *)
(* task: an event handler, or the resumption of an awaited operation,      *)
(* together with everything that runs synchronously with it.  Where a      *)
(* handler settles a promise that the executor awaits, the executor's      *)
(* resumption runs in the microtasks of the same task: it is a separate    *)
(* action here, enabled at once, and no other task is enabled until it has *)
(* run (see Quiescent).                                                    *)
(***************************************************************************)
EXTENDS Integers, Sequences, FiniteSets, TLC

\* ---- bounds of the model -------------------------------------------------
MaxCommands ==
  2
MaxPorts ==
  2
MaxToolPasses ==
  1
ExecCommands ==
  1
ExecPorts ==
  1
ExecToolPasses ==
  2
QueueCommands ==
  3
QueuePorts ==
  1
QueueToolPasses ==
  1
ConfirmCommands ==
  1
ConfirmPorts ==
  2
ConfirmToolPasses ==
  1
IterCommands ==
  1
FaultCommands ==
  3
FaultPorts ==
  1
IterToolPasses ==
  10
RingStepMs ==
  30000
RingMaxNow ==
  90000
RingMaxInWindow ==
  29
ClientRequests ==
  2
ClientStepMs ==
  15000
ClientMaxNow ==
  60000
SummaryLongText ==
  181
SummaryToolCalls ==
  3
PolicyCommands ==
  1
PolicyToolPasses ==
  2
HistoryCommands ==
  2
HistoryPorts ==
  1
HistoryStored ==
  499
HistoryStepDays ==
  15
HistoryMaxDay ==
  45
MaxWindowTabs ==
  4
TranscriptCommands ==
  2
TranscriptPorts ==
  1
TranscriptToolPasses ==
  1
SwitchCommands ==
  1
SwitchPorts ==
  1
SwitchToolPasses ==
  1
FollowUpCommands ==
  1
FollowUpPorts ==
  1
FollowUpToolPasses ==
  2
ContextCommands ==
  2
ContextPorts ==
  1
CloseWindowTabs ==
  3
CloseCalls ==
  2
LateCommands ==
  2
LatePorts ==
  1
LateToolPasses ==
  1
SameKeyCommands ==
  1
SameKeyPorts ==
  1
SameKeyToolPasses ==
  1
StaleCommands ==
  1
StaleToolPasses ==
  3

\* ---- program constants ---------------------------------------------------
MAX_ITERATIONS ==
  10
MAX_429_RETRIES ==
  3
MAX_LOG_ENTRIES ==
  500
THIRTY_DAYS ==
  30
RPM_LIMIT ==
  3
RPM_WINDOW_MS ==
  60000
REQUEST_TIMEOUT_MS ==
  45000

Sources ==
  {"popup", "voice", "external"}

VARIABLES
  processing,              \* state.processing
  currentCommand,          \* state.currentCommand (its commandId, 0 = null)
  commandQueue,            \* state.commandQueue
  currentAbortController,  \* state.currentAbortController (0 = null)
  popupPort,               \* state.popupPort (0 = null)
  actionLog,               \* state.actionLog
  commandIdCounter,
  confirmIdCounter,
  callIdCounter,
  pendingConfirmations,    \* the Map confirmId -> {commandId, resolve, timeoutId}
  timers,                  \* confirmation timers that are set and not cleared
  aborted,                 \* abort controllers whose signal has fired
  connected,               \* popup ports that are connected
  portCounter,
  ex,                      \* one frame of ToolExecutor.execute per command
  tabs,                    \* the browser's open tabs
  tabCounter,
  dispatched,              \* per command, the calls handed to ToolRegistry.execute
  promises,                \* what each submitter's promise was resolved with
  resolveLog,              \* log of the calls of a confirmation's resolve()
  startOrder,              \* commands in the order executeCommand began them
  now,                     \* Date.now(), in milliseconds
  modelCallLog,            \* LLMClient: per model of the ring, the times of its calls
  tokenParamCache,         \* LLMClient: model -> "new" | "old" ("none" = no entry)
  req,                     \* the call of LLMClient.chatCompletion that is under way
  lastPick,                \* what the latest call of nextModel found and chose
  requestTimes,            \* the times of the calls of nextModel in the trailing window
  summary,                 \* a call of buildCompletionSummary and what it returned
  today,                   \* Date.now(), its whole days; `now` counts on from there
  popupHistory,            \* the entries of the latest "history" message to the popup
  win                      \* a window's tabs and a call of closeDuplicateTabs on it

orchVars ==
  <<processing, currentCommand, commandQueue, currentAbortController, actionLog,
    commandIdCounter, promises, startOrder>>
confirmVars ==
  <<confirmIdCounter, pendingConfirmations, timers, resolveLog>>
portVars ==
  <<popupPort, connected, portCounter>>
browserVars ==
  <<tabs, tabCounter, dispatched>>
sideVars ==
  <<today, popupHistory, win>>
clientVars ==
  <<now, modelCallLog, tokenParamCache, req, lastPick, requestTimes, summary, sideVars>>
vars ==
  <<processing, currentCommand, commandQueue, currentAbortController, popupPort,
    actionLog, commandIdCounter, confirmIdCounter, callIdCounter,
    pendingConfirmations, timers, aborted, connected, portCounter, ex, tabs,
    tabCounter, dispatched, promises, resolveLog, startOrder,
    now, modelCallLog, tokenParamCache, req, lastPick, requestTimes, summary,
    today, popupHistory, win>>

Max(a, b) ==
  IF a >= b THEN a ELSE b

Commands ==
  1..Max(Max(Max(MaxCommands, ConfirmCommands), Max(ExecCommands, QueueCommands)),
         Max(IterCommands, FaultCommands))

\* ---- URLs and the dedup key ----------------------------------------------
\* A URL is a record of the parts normalizeUrlForDedup looks at.
EmptyUrl ==
  [protocol |-> "", www |-> FALSE, host |-> "", path |-> "", slashes |-> 0, search |-> ""]
AboutBlank ==
  [protocol |-> "about:", www |-> FALSE, host |-> "", path |-> "blank", slashes |-> 0, search |-> ""]
UrlX ==
  [protocol |-> "https:", www |-> FALSE, host |-> "x.com", path |-> "", slashes |-> 0, search |-> ""]
UrlWwwX ==
  [protocol |-> "https:", www |-> TRUE, host |-> "x.com", path |-> "", slashes |-> 1, search |-> ""]
UrlY ==
  [protocol |-> "https:", www |-> FALSE, host |-> "y.com", path |-> "/a", slashes |-> 0, search |-> ""]

NoKey ==
  <<>>

normalizeUrlForDedupDropsNothing(url) ==
  IF url = EmptyUrl THEN NoKey
  ELSE <<url.protocol, url.www, url.host, url.path, url.slashes, url.search>>

normalizeUrlForDedup(url) ==
  IF url = EmptyUrl THEN NoKey
  ELSE <<url.protocol, url.host, url.path, url.search>>

\* ---- UrlPolicy: blocked-site patterns ------------------------------------
\* The labels of the registrable hosts the model uses.
HostLabels(host) ==
  IF host = "x.com" THEN <<"x", "com">>
  ELSE IF host = "y.com" THEN <<"y", "com">>
  ELSE <<>>

\* new URL(url).hostname, as its sequence of labels
Hostname(url) ==
  IF url.host = "" THEN <<>>
  ELSE (IF url.www THEN <<"www">> ELSE <<>>) \o HostLabels(url.host)

\* A pattern line of the blocked-sites setting: a bare domain ("x.com"), or a
\* host with a path glob and no scheme ("x.com/*").
DomainPattern(labels) ==
  [domain |-> TRUE, labels |-> labels]

PathPattern(labels) ==
  [domain |-> FALSE, labels |-> labels]

\* !pattern.includes("://") && !pattern.includes("/")
isDomainPattern(pattern) ==
  pattern.domain

IsSuffix(s, t) ==
  /\ Len(s) <= Len(t)
  /\ SubSeq(t, Len(t) - Len(s) + 1, Len(t)) = s

\* host === normalized || host.endsWith("." + normalized)
matchesDomain(hostname, pattern) ==
  /\ hostname # <<>>
  /\ pattern.labels # <<>>
  /\ IsSuffix(pattern.labels, hostname)

\* globToRegex("host/*") tested on the href, which begins with the scheme,
\* and on hostname + pathname + search, whose pathname begins with "/"
matchesPattern(url, pattern) ==
  IF isDomainPattern(pattern) THEN matchesDomain(Hostname(url), pattern)
  ELSE Hostname(url) # <<>> /\ Hostname(url) = pattern.labels

isBlockedUrl(url, patterns) ==
  /\ url # EmptyUrl
  /\ \E j \in DOMAIN patterns : matchesPattern(url, patterns[j])

\* isUrlBlocked of the executor
isUrlBlocked(url, blockedPatterns) ==
  /\ url # EmptyUrl
  /\ Len(blockedPatterns) # 0
  /\ isBlockedUrl(url, blockedPatterns)

\* ---- frames of ToolExecutor.execute --------------------------------------
NoResult ==
  [cmd |-> 0, kind |-> "none"]

NoFrame ==
  [id |-> 0, pc |-> "none", source |-> "none", queuePosition |-> 0, iteration |-> 0,
   toolPasses |-> 0, requests |-> 0,
   llmPhase |-> "none", attempt |-> 0, wake |-> "none", wakeBy |-> "none",
   confirmId |-> 0, k |-> 0,
   parsed |-> <<>>, autos |-> <<>>, allToolCalls |-> <<>>, messages |-> <<>>,
   createdTabsByUrl |-> <<>>, inFlightCreateByUrl |-> <<>>, events |-> <<>>,
   decisions |-> <<>>, blockedPatterns |-> <<>>, startedAt |-> [day |-> 0, ms |-> 0],
   toolCalls |-> <<>>, recentHistory |-> <<>>, inFlightSwitchByTab |-> <<>>,
   result |-> NoResult]

Event(type, callId, result) ==
  [type |-> type, callId |-> callId, result |-> result]

NoRes ==
  [error |-> FALSE, denied |-> FALSE, blocked |-> FALSE, deduped |-> FALSE, tab |-> 0,
   url |-> EmptyUrl, thrown |-> FALSE, skipped |-> FALSE, switch |-> "none"]

AttachByPosition(records, callId, result) ==
  LET open == {i \in DOMAIN records : ~records[i].answered}
  IN IF open = {} THEN records
     ELSE LET i == CHOOSE x \in open : \A y \in open : x <= y
          IN [records EXCEPT ![i].result = result, ![i].answered = TRUE]

\* for (let i = pending.length - 1; i >= 0; i--)
\*   if (pending[i].callId === data.callId) { pending[i].result = data.result; break; }
Attach(records, callId, result) ==
  LET hits == {i \in DOMAIN records : records[i].callId = callId}
  IN IF hits = {} THEN records
     ELSE LET i == CHOOSE x \in hits : \A y \in hits : y <= x
          IN [records EXCEPT ![i].result = result, ![i].answered = TRUE]

\* the progress callback of executeCommand on state.currentCommand.toolCalls
onUpdate(records, type, callId, result) ==
  IF type = "tool_call"
    THEN Append(records, [callId |-> callId, result |-> NoRes, answered |-> FALSE])
  ELSE IF type = "tool_result" THEN Attach(records, callId, result)
  ELSE records

\* onUpdate(type, data) as execute calls it; once executeCommand has ended,
\* state.currentCommand is no longer this command's record
Emit(f, type, callId, result) ==
  [f EXCEPT !.events = Append(@, Event(type, callId, result)),
            !.toolCalls = IF f.pc = "done" THEN @ ELSE onUpdate(@, type, callId, result)]

\* No microtask is pending: the next step is a new task.
Quiescent ==
  \A c \in Commands : ex[c].pc # "returned" /\ ex[c].wake = "none"

Running(c) ==
  ex[c].pc \notin {"none", "queued", "done"}

\* cancelledResult and the other return statements of execute; the AbortError
\* that escapes execute is the result kind "throw".
Return(f, kind) ==
  [f EXCEPT !.pc = "returned",
            !.wake = "none",
            !.wakeBy = "none",
            !.llmPhase = "none",
            !.attempt = 0,
            !.result = [cmd |-> f.id, kind |-> kind],
            !.events = IF kind \in {"cancelled", "error", "max"}
                         THEN Append(@, Event("error", 0, NoRes))
                       ELSE IF kind = "text" THEN Append(@, Event("response", 0, NoRes))
                       ELSE @]

\* LLMClient.chatCompletion is called: the loop head of execute.
StartRequest(f) ==
  [f EXCEPT !.pc = "llm", !.llmPhase = "fetch", !.attempt = 0, !.requests = @ + 1]

LoopHeadOneMore(f, isAborted) ==
  IF f.iteration > MAX_ITERATIONS THEN Return(f, "max")
  ELSE IF isAborted THEN Return(f, "throw")
  ELSE StartRequest(f)

\* for (iteration...) { throwIfAborted(signal); ... }: the loop head is outside
\* every try block of execute.
LoopHead(f, isAborted) ==
  IF f.iteration >= MAX_ITERATIONS THEN Return(f, "max")
  ELSE IF isAborted THEN Return(f, "throw")
  ELSE StartRequest(f)

ModelErrorRetriesOnce(f, isAborted) ==
  IF isAborted THEN Return(f, "cancelled")
  ELSE IF f.requests < 2 THEN StartRequest(f)
  ELSE Return(f, "error")

\* catch (err) of the chatCompletion call in execute: the cancelled result
\* when the signal has fired, the "LLM error" result otherwise.
ModelError(f, isAborted) ==
  Return(f, IF isAborted THEN "cancelled" ELSE "error")

\* ---- the orchestrator ----------------------------------------------------
ShouldQueueNever ==
  FALSE

\* handleCommand: if (state.processing)
ShouldQueue ==
  processing

NewAbortControllerShared(ab, cid) ==
  IF ab # {} THEN ab \cup {cid} ELSE ab

\* new AbortController(): a fresh signal that has not fired
NewAbortController(ab, cid) ==
  ab \ {cid}

\* Date.now() as whole days and the milliseconds on top of them
Time(d, t) ==
  [day |-> d, ms |-> t]

\* e.timestamp > Date.now() - THIRTY_DAYS_MS
Younger(e, d, t) ==
  \/ e.timestamp.day + THIRTY_DAYS > d
  \/ e.timestamp.day + THIRTY_DAYS = d /\ e.timestamp.ms > t

\* loadActionLog: state.actionLog = actionLog.filter((e) => e.timestamp > cutoff)
loadActionLog(stored, d, t) ==
  SelectSeq(stored, LAMBDA e : Younger(e, d, t))

saveActionLogKeepsOldest(log, d, t) ==
  LET young == SelectSeq(log, LAMBDA e : Younger(e, d, t))
  IN IF Len(young) > MAX_LOG_ENTRIES THEN SubSeq(young, 1, MAX_LOG_ENTRIES) ELSE young

\* saveActionLog: .filter((e) => e.timestamp > cutoff).slice(-500)
saveActionLog(log, d, t) ==
  LET young == SelectSeq(log, LAMBDA e : Younger(e, d, t))
  IN IF Len(young) > MAX_LOG_ENTRIES
       THEN SubSeq(young, Len(young) - MAX_LOG_ENTRIES + 1, Len(young))
     ELSE young

\* state.actionLog.slice(-5)
RecentHistory(log) ==
  SubSeq(log, IF Len(log) > 5 THEN Len(log) - 4 ELSE 1, Len(log))

StartCommandKeepsController(cid, src, e, log) ==
  /\ processing' = TRUE
  /\ currentAbortController' = IF currentAbortController # 0 THEN currentAbortController
                                ELSE cid
  /\ aborted' = NewAbortController(aborted, cid)
  /\ currentCommand' = cid
  /\ startOrder' = Append(startOrder, cid)
  /\ ex' = [e EXCEPT ![cid] = [e[cid] EXCEPT !.id = cid, !.pc = "blocked", !.source = src,
                                             !.startedAt = Time(today, now),
                                             !.toolCalls = <<>>,
                                             !.recentHistory = RecentHistory(log)]]

\* executeCommand up to its await of ToolExecutor.execute, and execute up to
\* its first await (getBlockedPatternsSafe).
StartCommand(cid, src, e, log) ==
  /\ processing' = TRUE
  /\ currentAbortController' = cid
  /\ aborted' = NewAbortController(aborted, cid)
  /\ currentCommand' = cid
  /\ startOrder' = Append(startOrder, cid)
  /\ ex' = [e EXCEPT ![cid] = [e[cid] EXCEPT !.id = cid, !.pc = "blocked", !.source = src,
                                             !.startedAt = Time(today, now),
                                             !.toolCalls = <<>>,
                                             !.recentHistory = RecentHistory(log)]]

EnqueueBounded(q, item) ==
  IF Len(q) >= 1 THEN q ELSE Append(q, item)

\* state.commandQueue.push({ commandId, text, source, resolve })
Enqueue(q, item) ==
  Append(q, item)

Pop(q) ==
  [next |-> q[Len(q)], rest |-> SubSeq(q, 1, Len(q) - 1)]

\* state.commandQueue.shift()
Shift(q) ==
  [next |-> Head(q), rest |-> Tail(q)]

SubmitAllowed(src) ==
  /\ src = "popup" => connected # {}

\* handleCommand(text, source)
Submit(src, maxCmds) ==
  /\ Quiescent
  /\ commandIdCounter < maxCmds
  /\ SubmitAllowed(src)
  /\ LET cid == commandIdCounter + 1 IN
       /\ commandIdCounter' = cid
       /\ IF ShouldQueue
            THEN /\ commandQueue' = Enqueue(commandQueue, [commandId |-> cid, source |-> src])
                 /\ ex' = [ex EXCEPT ![cid] = [NoFrame EXCEPT !.id = cid, !.pc = "queued",
                                                              !.source = src,
                                                              !.queuePosition =
                                                                 Len(commandQueue')]]
                 /\ UNCHANGED <<processing, currentAbortController, aborted, currentCommand,
                                startOrder>>
          ELSE /\ StartCommand(cid, src, ex, actionLog)
               /\ UNCHANGED commandQueue
  /\ UNCHANGED <<clientVars, actionLog, promises, confirmVars, portVars, browserVars, callIdCounter>>

ConfirmsOf(cmd) ==
  {p \in pendingConfirmations : p.commandId = cmd}

LogResolves(log, ps, approved) ==
  LET RECURSIVE Go(_, _)
      Go(l, s) ==
        IF s = {} THEN l
        ELSE LET p == CHOOSE q \in s : \A r \in s : q.confirmId <= r.confirmId
             IN Go(Append(l, [confirmId |-> p.confirmId, approved |-> approved]),
                   s \ {p})
  IN Go(log, ps)

\* pending.resolve(value) wakes the frame that awaits this confirmation, unless
\* the abort listener of awaitWithSignal has already rejected the await.
Deliver(e, ids, val, by) ==
  [c \in DOMAIN e |->
     IF e[c].pc = "confirm" /\ e[c].confirmId \in ids /\ e[c].wake = "none"
       THEN [e[c] EXCEPT !.wake = val, !.wakeBy = by]
     ELSE e[c]]

\* controller.abort(): the abort listeners of awaitWithSignal reject at once
AbortListeners(e, ctrl) ==
  [c \in DOMAIN e |->
     IF c = ctrl /\ e[c].pc \in {"context", "confirm"} /\ e[c].wake = "none"
       THEN [e[c] EXCEPT !.wake = "abort"]
     ELSE e[c]]

CancelTargetsAll(ctrl, queue) ==
  (IF ctrl # 0 THEN {ctrl} ELSE {}) \cup {queue[i].commandId : i \in DOMAIN queue}

\* handlePopupMessage "cancel": state.currentAbortController.abort()
CancelTargets(ctrl, queue) ==
  IF ctrl # 0 THEN {ctrl} ELSE {}

CancelConfirmsNone(cmd) ==
  {}

\* handlePopupMessage "cancel": resolveConfirmationsForCommand(commandId, false)
CancelConfirms(cmd) ==
  IF cmd # 0 THEN ConfirmsOf(cmd) ELSE {}

\* handlePopupMessage, case "cancel"
Cancel ==
  /\ Quiescent
  /\ connected # {}
  /\ aborted' = aborted \cup CancelTargets(currentAbortController, commandQueue)
  /\ LET mine == CancelConfirms(currentCommand)
         ids == {p.confirmId : p \in mine}
     IN /\ pendingConfirmations' = pendingConfirmations \ mine
        /\ timers' = timers \ ids
        /\ resolveLog' = LogResolves(resolveLog, mine, FALSE)
        /\ ex' = Deliver(AbortListeners(ex, currentAbortController), ids, "denied", "cancel")
  /\ UNCHANGED <<clientVars, orchVars, confirmIdCounter, portVars, browserVars, callIdCounter>>

\* execute has returned: its transcript, dedup index and progress callback are
\* dropped; only the callbacks of a fan-out that are still in flight live on.
Discard(f) ==
  [NoFrame EXCEPT !.id = f.id, !.pc = "done", !.source = f.source, !.result = f.result,
                  !.queuePosition = f.queuePosition,
                  !.parsed = f.parsed, !.autos = f.autos,
                  !.createdTabsByUrl = f.createdTabsByUrl,
                  !.inFlightCreateByUrl = f.inFlightCreateByUrl,
                  !.blockedPatterns = f.blockedPatterns,
                  !.startedAt = f.startedAt,
                  !.toolCalls = f.toolCalls,
                  !.inFlightSwitchByTab = f.inFlightSwitchByTab]

LogEntry(c, kind) ==
  [id |-> c,
   timestamp |-> ex[c].startedAt,
   toolCalls |-> ex[c].toolCalls,
   error |-> kind \in {"throw", "error", "cancelled", "max"},
   cancelled |-> kind = "cancelled"]

OutcomeCatchLogsNothing(c, fault) ==
  LET res == ex[c].result
      thrown == res.kind = "throw" \/ fault # "none"
  IN [entry |-> IF thrown THEN <<>> ELSE <<LogEntry(c, res.kind)>>,
      ret |-> IF fault = "catch"
                THEN IF ex[c].queuePosition = 0
                       THEN <<[cmd |-> c, kind |-> "rejected"]>> ELSE <<>>
              ELSE IF thrown THEN <<[cmd |-> c, kind |-> "caught"]>>
              ELSE <<res>>]

\* The try block of executeCommand after the await of execute, and its catch
\* block: the history entry that is pushed and what the submitter's promise
\* is settled with.  fault "try": a host call of the try block throws (the
\* notification, made when no popup is attached) and the catch block runs;
\* fault "catch": the same call throws in the catch block, before its push, so
\* executeCommand rejects; a queued command's resolve is then never called.
Outcome(c, fault) ==
  LET res == ex[c].result
      thrown == res.kind = "throw" \/ fault # "none"
  IN [entry |-> IF fault = "catch" THEN <<>>
                ELSE IF thrown THEN <<LogEntry(c, "throw")>>
                ELSE <<LogEntry(c, res.kind)>>,
      ret |-> IF fault = "catch"
                THEN IF ex[c].queuePosition = 0
                       THEN <<[cmd |-> c, kind |-> "rejected"]>> ELSE <<>>
              ELSE IF thrown THEN <<[cmd |-> c, kind |-> "caught"]>>
              ELSE <<res>>]

FinallyOnlyAfterTry(fault) ==
  fault = "none"

\* try { ... } catch { ... } finally { ... }: the finally block runs however
\* the try and catch blocks end
FinallyRuns(fault) ==
  TRUE

\* executeCommand after execute has settled: the rest of the try block or the
\* catch block, then the finally block, which starts the next queued command.
EndCommand(c, fault) ==
  /\ ex[c].pc = "returned"
  /\ LET out == Outcome(c, fault)
         mine == IF FinallyRuns(fault) THEN ConfirmsOf(c) ELSE {}
         e1 == [ex EXCEPT ![c] = Discard(@)]
     IN /\ actionLog' = IF fault = "catch" THEN actionLog
                       ELSE saveActionLog(actionLog \o out.entry, today, now)
        /\ promises' = [promises EXCEPT ![c] = @ \o out.ret]
        /\ pendingConfirmations' = pendingConfirmations \ mine
        /\ timers' = timers \ {p.confirmId : p \in mine}
        /\ resolveLog' = LogResolves(resolveLog, mine, FALSE)
        /\ IF ~FinallyRuns(fault)
             THEN /\ ex' = e1
                  /\ UNCHANGED <<processing, currentAbortController, currentCommand,
                                 commandQueue, aborted, startOrder>>
           ELSE IF Len(commandQueue) > 0
             THEN /\ commandQueue' = Shift(commandQueue).rest
                  /\ StartCommand(Shift(commandQueue).next.commandId,
                                  Shift(commandQueue).next.source, e1, actionLog')
           ELSE /\ processing' = FALSE
                /\ currentAbortController' = 0
                /\ currentCommand' = 0
                /\ ex' = e1
                /\ UNCHANGED <<commandQueue, aborted, startOrder>>
  /\ dispatched' = [dispatched EXCEPT ![c] = <<>>]
  /\ UNCHANGED <<clientVars, commandIdCounter, confirmIdCounter, portVars, tabs, tabCounter, callIdCounter>>

\* executeCommand ends without a fault of the host
Complete(c) ==
  EndCommand(c, "none")

\* executeCommand ends while browser.notifications.create throws: it is called
\* only if (!state.popupPort), in the try block and again in the catch block
HostFault(c, fault) ==
  /\ popupPort = 0
  /\ fault = "try" => ex[c].result.kind # "throw"
  /\ EndCommand(c, fault)

\* browser.runtime.onConnect, port.name === "popup"
Connect(maxPorts) ==
  /\ Quiescent
  /\ portCounter < maxPorts
  /\ portCounter' = portCounter + 1
  /\ popupPort' = portCounter + 1
  /\ connected' = connected \cup {portCounter + 1}
  /\ UNCHANGED <<clientVars, orchVars, confirmVars, browserVars, callIdCounter, aborted, ex>>

\* port.onDisconnect
Disconnect(p) ==
  /\ Quiescent
  /\ p \in connected
  /\ connected' = connected \ {p}
  /\ popupPort' = 0
  /\ pendingConfirmations' = {}
  /\ timers' = timers \ {q.confirmId : q \in pendingConfirmations}
  /\ resolveLog' = LogResolves(resolveLog, pendingConfirmations, FALSE)
  /\ ex' = Deliver(ex, {q.confirmId : q \in pendingConfirmations}, "denied", "disconnect")
  /\ UNCHANGED <<clientVars, orchVars, confirmIdCounter, portCounter, browserVars, callIdCounter, aborted>>

\* ---- the history and its observers ---------------------------------------
\* An entry that an earlier session of the extension left in storage.
StoredEntry(i, d) ==
  [id |-> 0 - i, timestamp |-> Time(d, 0), toolCalls |-> <<>>, error |-> FALSE,
   cancelled |-> FALSE]

\* init: await loadActionLog(), before the first command and the first port
LoadActionLog(stored) ==
  /\ commandIdCounter = 0
  /\ portCounter = 0
  /\ today = 0
  /\ actionLog = <<>>
  /\ actionLog' = loadActionLog(stored, today, now)
  /\ UNCHANGED <<clientVars, processing, currentCommand, commandQueue, currentAbortController,
                 commandIdCounter, promises, startOrder, confirmVars, portVars, browserVars,
                 callIdCounter, aborted, ex>>

\* sendToPopup({ type: "history", entries })
SendHistory(entries) ==
  IF popupPort # 0 THEN entries ELSE popupHistory

\* handlePopupMessage, case "get_history"
GetHistory ==
  /\ Quiescent
  /\ connected # {}
  /\ popupHistory' = SendHistory(actionLog)
  /\ UNCHANGED <<now, modelCallLog, tokenParamCache, req, lastPick, requestTimes, summary,
                 today, win, orchVars, confirmVars, portVars, browserVars, callIdCounter, aborted, ex>>

ClearHistoryKeepsLog(log) ==
  log

\* state.actionLog = []
ClearedLog(log) ==
  <<>>

\* handlePopupMessage, case "clear_history"
ClearHistory ==
  /\ Quiescent
  /\ connected # {}
  /\ actionLog' = saveActionLog(ClearedLog(actionLog), today, now)
  /\ popupHistory' = SendHistory(<<>>)
  /\ UNCHANGED <<now, modelCallLog, tokenParamCache, req, lastPick, requestTimes, summary,
                 today, win, processing, currentCommand, commandQueue, currentAbortController,
                 commandIdCounter, promises, startOrder, confirmVars, portVars, browserVars,
                 callIdCounter, aborted, ex>>

\* days go by
DaysPass(step, maxDay) ==
  /\ Quiescent
  /\ today + step <= maxDay
  /\ today' = today + step
  /\ UNCHANGED <<now, modelCallLog, tokenParamCache, req, lastPick, requestTimes, summary,
                 popupHistory, win, orchVars, confirmVars, portVars, browserVars, callIdCounter,
                 aborted, ex>>

\* ---- the capability close_duplicate_tabs ---------------------------------
NoWindow ==
  [tabs |-> <<>>, opened |-> 0, pc |-> "idle", queried |-> <<>>, dupes |-> {},
   closedCount |-> 0, message |-> FALSE, closers |-> <<>>]

Urls ==
  {UrlX, UrlWwwX, UrlY}

DupesByDedupKey(ts) ==
  {ts[i].id : i \in {j \in DOMAIN ts :
                       \E k \in 1..(j - 1) :
                         normalizeUrlForDedup(ts[k].url) = normalizeUrlForDedup(ts[j].url)}}

\* for (const tab of tabs) { if (seen.has(tab.url)) dupes.push(tab.id); else seen.add(tab.url); }
Dupes(ts) ==
  {ts[i].id : i \in {j \in DOMAIN ts : \E k \in 1..(j - 1) : ts[k].url = ts[j].url}}

\* the user opens a tab at the end of the window
OpenTab(url, maxTabs) ==
  /\ win.pc # "done"
  /\ win.opened < maxTabs
  /\ win' = [win EXCEPT !.tabs = Append(@, [id |-> win.opened + 1, url |-> url]),
                        !.opened = @ + 1]
  /\ UNCHANGED <<now, modelCallLog, tokenParamCache, req, lastPick, requestTimes, summary,
                 today, popupHistory, orchVars, confirmVars, portVars, browserVars,
                 callIdCounter, aborted, ex>>

\* closeDuplicateTabs: browser.tabs.query has answered; without duplicates the
\* call returns, otherwise it awaits browser.tabs.remove(dupes)
CloseDuplicateTabs ==
  /\ win.pc = "idle"
  /\ win.tabs # <<>>
  /\ LET dupes == Dupes(win.tabs)
     IN win' = [win EXCEPT !.queried = win.tabs,
                           !.dupes = dupes,
                           !.pc = IF dupes = {} THEN "done" ELSE "remove",
                           !.message = (dupes = {})]
  /\ UNCHANGED <<now, modelCallLog, tokenParamCache, req, lastPick, requestTimes, summary,
                 today, popupHistory, orchVars, confirmVars, portVars, browserVars,
                 callIdCounter, aborted, ex>>

\* closeDuplicateTabs: browser.tabs.remove(dupes) has settled
RemoveDone ==
  /\ win.pc = "remove"
  /\ win' = [win EXCEPT !.tabs = SelectSeq(@, LAMBDA t : t.id \notin win.dupes),
                        !.closedCount = Cardinality(win.dupes),
                        !.pc = "done"]
  /\ UNCHANGED <<now, modelCallLog, tokenParamCache, req, lastPick, requestTimes, summary,
                 today, popupHistory, orchVars, confirmVars, portVars, browserVars,
                 callIdCounter, aborted, ex>>

\* ---- the capability close_tabs --------------------------------------------
OpenIds(w) ==
  {w.tabs[i].id : i \in DOMAIN w.tabs}

closingAllNever(winTabIds, tabIds) ==
  FALSE

\* const closingAll = winTabIds.every(id => tabIds.includes(id));
\* if (closingAll && winTabIds.length > 0)
closingAll(winTabIds, tabIds) ==
  winTabIds \subseteq tabIds /\ winTabIds # {}

\* closeTabs({ tabIds }): browser.windows.getAll has answered; the call is
\* refused, or it goes on to await browser.tabs.remove(tabIds)
CloseTabsChecked(tabIds, maxCalls) ==
  /\ Len(win.closers) < maxCalls
  /\ win.tabs # <<>>
  /\ win' = [win EXCEPT !.closers =
                 Append(@, [tabIds |-> tabIds, seen |-> OpenIds(win),
                            pc |-> IF closingAll(OpenIds(win), tabIds) THEN "refused"
                                   ELSE "remove",
                            closedCount |-> 0])]
  /\ UNCHANGED <<now, modelCallLog, tokenParamCache, req, lastPick, requestTimes, summary,
                 today, popupHistory, orchVars, confirmVars, portVars, browserVars,
                 callIdCounter, aborted, ex>>

\* closeTabs: browser.tabs.remove(tabIds) has settled; with an id that is no
\* longer open it rejects, having closed the open ones or none
CloseTabsRemoved(k, partial) ==
  /\ k \in DOMAIN win.closers
  /\ win.closers[k].pc = "remove"
  /\ LET ids == win.closers[k].tabIds
         valid == ids \subseteq OpenIds(win)
     IN win' = [win EXCEPT !.tabs = IF valid \/ partial
                                      THEN SelectSeq(@, LAMBDA t : t.id \notin ids)
                                    ELSE @,
                           !.closers[k].pc = IF valid THEN "done" ELSE "error",
                           !.closers[k].closedCount = IF valid THEN Cardinality(ids) ELSE 0]
  /\ UNCHANGED <<now, modelCallLog, tokenParamCache, req, lastPick, requestTimes, summary,
                 today, popupHistory, orchVars, confirmVars, portVars, browserVars,
                 callIdCounter, aborted, ex>>

\* ---- the executor: context assembly --------------------------------------
\* execute resumes from await getBlockedPatternsSafe() with the pattern lines
\* of the blocked-sites setting and runs the pre-run list_tabs up to its await.
BlockedPatternsRead(c, patterns) ==
  /\ Quiescent
  /\ ex[c].pc = "blocked"
  /\ IF c \in aborted
       THEN /\ ex' = [ex EXCEPT ![c] = Return(@, "cancelled")]
            /\ UNCHANGED <<callIdCounter, dispatched>>
     ELSE /\ callIdCounter' = callIdCounter + 1
          /\ dispatched' = [dispatched EXCEPT ![c] =
                               Append(@, [cmd |-> c, name |-> "list_tabs",
                                          callId |-> callIdCounter + 1, url |-> EmptyUrl,
                                          tab |-> 0])]
          /\ ex' = [ex EXCEPT ![c] = Emit([@ EXCEPT !.pc = "prerun",
                                                    !.blockedPatterns = patterns,
                                                    !.k = callIdCounter + 1],
                                          "tool_call", callIdCounter + 1, NoRes)]
  /\ UNCHANGED <<clientVars, orchVars, confirmVars, portVars, tabs, tabCounter, aborted>>

\* the blocked-sites setting has its default, the empty text
BlockedPatternsDone(c) ==
  BlockedPatternsRead(c, <<>>)

Keys(ts) ==
  {normalizeUrlForDedup(t.url) : t \in ts} \ {NoKey}

\* "Seed dedup map with already-open tabs": the first tab of each key
SeedCreatedTabs(ts) ==
  [key \in Keys(ts) |->
     CHOOSE t \in ts : /\ normalizeUrlForDedup(t.url) = key
                       /\ \A u \in ts : normalizeUrlForDedup(u.url) = key => t.id <= u.id]

\* the pre-run list_tabs has answered
PrerunDone(c) ==
  /\ Quiescent
  /\ ex[c].pc = "prerun"
  /\ LET f == ex[c]
         f1 == [Emit(f, "tool_result", f.k, NoRes)
                  EXCEPT !.allToolCalls = Append(@, [callId |-> f.k, name |-> "list_tabs",
                                                     tcid |-> [kind |-> "prerun",
                                                               iteration |-> 0, index |-> 0],
                                                     result |-> NoRes]),
                         !.createdTabsByUrl = SeedCreatedTabs(tabs),
                         !.k = 0]
     IN ex' = [ex EXCEPT ![c] = IF c \in aborted THEN Return(f1, "cancelled")
                                ELSE [f1 EXCEPT !.pc = "context"]]
  /\ UNCHANGED <<clientVars, orchVars, confirmVars, portVars, browserVars, callIdCounter, aborted>>

NoId ==
  [kind |-> "none", iteration |-> 0, index |-> 0]

Message(role, id, calls, result) ==
  [role |-> role, id |-> id, calls |-> calls, result |-> result]

\* `hist_${entry.id}_${i}`
HistId(entry, i) ==
  [kind |-> "hist", iteration |-> entry.id, index |-> i - 1]

\* the messages one entry of recentHistory is replayed as
Replay(entry) ==
  <<Message("user", NoId, <<>>, NoRes)>>
  \o (IF Len(entry.toolCalls) > 0
        THEN <<Message("assistant", NoId,
                       [i \in DOMAIN entry.toolCalls |-> HistId(entry, i)], NoRes)>>
             \o [i \in DOMAIN entry.toolCalls |->
                   Message("tool", HistId(entry, i), <<>>, entry.toolCalls[i].result)]
      ELSE <<>>)
  \o (IF ~entry.error THEN <<Message("assistant", NoId, <<>>, NoRes)>> ELSE <<>>)

PrerunId ==
  [kind |-> "prerun", iteration |-> 0, index |-> 0]

\* "Build initial messages": the system prompt, the replayed history, the
\* user's command and the injected list_tabs call with its result
InitialMessages(f) ==
  LET RECURSIVE Go(_)
      Go(n) == IF n = 0 THEN <<>> ELSE Go(n - 1) \o Replay(f.recentHistory[n])
  IN <<Message("system", NoId, <<>>, NoRes)>>
     \o Go(Len(f.recentHistory))
     \o <<Message("user", NoId, <<>>, NoRes),
          Message("assistant", NoId, <<PrerunId>>, NoRes),
          Message("tool", PrerunId, <<>>, NoRes)>>

\* buildContext or the context timeout has settled; the transcript is seeded
\* and the first model request is sent.
ContextDone(c) ==
  /\ Quiescent
  /\ ex[c].pc = "context"
  /\ ex' = [ex EXCEPT ![c] = LoopHead([@ EXCEPT !.messages = InitialMessages(ex[c])],
                                     c \in aborted)]
  /\ UNCHANGED <<clientVars, orchVars, confirmVars, portVars, browserVars, callIdCounter, aborted>>

\* catch (e) { if (isAbortError(e) || signal.aborted) return cancelledResult(); }
\* after the abort listener of awaitWithSignal rejected an await
AbortWake(c) ==
  /\ ex[c].wake = "abort"
  /\ ex' = [ex EXCEPT ![c] = Return(@, "cancelled")]
  /\ UNCHANGED <<clientVars, orchVars, confirmVars, portVars, browserVars, callIdCounter, aborted>>

\* ---- the executor: model round-trip --------------------------------------
\* chatCompletion returns a message without tool calls
LLMText(c) ==
  /\ Quiescent
  /\ ex[c].pc = "llm" /\ ex[c].llmPhase = "fetch"
  /\ c \notin aborted
  /\ ex' = [ex EXCEPT ![c] = Return(@, "text")]
  /\ UNCHANGED <<clientVars, orchVars, confirmVars, portVars, browserVars, callIdCounter, aborted>>

\* chatCompletion throws: network error, timeout, non-OK status, or the fetch
\* was aborted by the signal
LLMFail(c) ==
  /\ Quiescent
  /\ ex[c].pc = "llm" /\ ex[c].llmPhase = "fetch"
  /\ ex' = [ex EXCEPT ![c] = ModelError(@, c \in aborted)]
  /\ UNCHANGED <<clientVars, orchVars, confirmVars, portVars, browserVars, callIdCounter, aborted>>

\* chatCompletion got a 429 and sleeps before the next attempt
LLM429(c) ==
  /\ Quiescent
  /\ ex[c].pc = "llm" /\ ex[c].llmPhase = "fetch"
  /\ c \notin aborted
  /\ ex[c].attempt < MAX_429_RETRIES
  /\ ex' = [ex EXCEPT ![c].llmPhase = "sleep", ![c].attempt = @ + 1]
  /\ UNCHANGED <<clientVars, orchVars, confirmVars, portVars, browserVars, callIdCounter, aborted>>

\* the back-off sleep of chatCompletion is over: next attempt
LLMSleepDone(c) ==
  /\ Quiescent
  /\ ex[c].pc = "llm" /\ ex[c].llmPhase = "sleep"
  /\ ex' = [ex EXCEPT ![c].llmPhase = "fetch"]
  /\ UNCHANGED <<clientVars, orchVars, confirmVars, portVars, browserVars, callIdCounter, aborted>>

\* ---- the executor: one pass of tool calls --------------------------------
DESTRUCTIVE_TOOLS ==
  {"close_tabs", "close_duplicate_tabs"}

DeniedResult ==
  [NoRes EXCEPT !.error = TRUE, !.denied = TRUE]

Call(name, url) ==
  [name |-> name, url |-> url, tabId |-> 0]

\* a switch_tab call whose tabId argument is a number
SwitchCall(tabId) ==
  [Call("switch_tab", EmptyUrl) EXCEPT !.tabId = tabId]

NoAuto ==
  [tabId |-> 0, index |-> 0, st |-> "none", waitCallId |-> 0, inspectCallId |-> 0]

\* What a synchronous stretch of execute works on: the frame, the log of
\* dispatched capability calls and the call id counter.
World(f, d, n) ==
  [f |-> f, d |-> d, n |-> n]

\* ToolRegistry.execute(name, args) is called
Dispatch(w, name, callId, url, tab) ==
  [w EXCEPT !.d = Append(@, [cmd |-> w.f.id, name |-> name, callId |-> callId,
                             url |-> url, tab |-> tab])]

SeqOfSet(S) ==
  LET RECURSIVE Go(_)
      Go(T) == IF T = {} THEN <<>>
               ELSE LET m == CHOOSE x \in T : \A y \in T : x <= y
                    IN <<m>> \o Go(T \ {m})
  IN Go(S)

\* autoInspectCreatedTabs after its filter: per created tab, the stretch of
\* the callback up to await ToolRegistry.execute("wait_for_page")
StartAutos(w, created) ==
  LET RECURSIVE Go(_, _)
      Go(v, j) ==
        IF j > Len(created) THEN v
        ELSE LET id == v.n + 1
                 a == [NoAuto EXCEPT !.tabId = v.f.parsed[created[j]].result.tab,
                                     !.index = j - 1, !.st = "wait", !.waitCallId = id]
                 v1 == [v EXCEPT !.n = id,
                                 !.f = Emit([@ EXCEPT !.autos = Append(@, a)],
                                            "tool_call", id, NoRes)]
             IN Go(Dispatch(v1, "wait_for_page", id, EmptyUrl, a.tabId), j + 1)
  IN Go([w EXCEPT !.f.pc = "auto", !.f.autos = <<>>], 1)

\* the end of one pass: continue with the next iteration of the loop
NextIteration(f, isAborted) ==
  LoopHead([f EXCEPT !.iteration = @ + 1, !.toolPasses = @ + 1, !.parsed = <<>>,
                     !.autos = <<>>, !.k = 0, !.confirmId = 0], isAborted)

RecordResultsSkipsDenied(f) ==
  LET RECURSIVE Go(_, _)
      Go(g, i) ==
        IF i > Len(f.parsed) THEN g
        ELSE LET call == f.parsed[i]
             IN Go([g EXCEPT !.allToolCalls = Append(@, [callId |-> call.callId,
                                                         name |-> call.name,
                                                         tcid |-> call.tcid,
                                                         result |-> call.result]),
                             !.messages = IF call.result.denied THEN @
                                          ELSE Append(@, [role |-> "tool", id |-> call.tcid,
                                                          calls |-> <<>>,
                                                          result |-> call.result])],
                    i + 1)
  IN Go(f, 1)

\* for (const { toolCall, funcName, funcArgs, callId, result } of toolResults):
\* allToolCalls.push(...) and messages.push({ role: "tool", ... })
RecordResults(f) ==
  LET RECURSIVE Go(_, _)
      Go(g, i) ==
        IF i > Len(f.parsed) THEN g
        ELSE LET call == f.parsed[i]
             IN Go([g EXCEPT !.allToolCalls = Append(@, [callId |-> call.callId,
                                                         name |-> call.name,
                                                         tcid |-> call.tcid,
                                                         result |-> call.result]),
                             !.messages = Append(@, [role |-> "tool", id |-> call.tcid,
                                                     calls |-> <<>>,
                                                     result |-> call.result])],
                    i + 1)
  IN Go(f, 1)

JoinFollowsDeduped(w, isAborted) ==
  LET f1 == RecordResults(w.f)
      created == SeqOfSet({i \in DOMAIN f1.parsed :
                             /\ f1.parsed[i].name = "create_tab"
                             /\ f1.parsed[i].result.tab # 0})
  IN IF isAborted THEN [w EXCEPT !.f = Return(f1, "cancelled")]
     ELSE IF Len(created) = 0 THEN [w EXCEPT !.f = NextIteration(f1, isAborted)]
     ELSE StartAutos([w EXCEPT !.f = f1], created)

\* Promise.all of the pass has resolved: results are recorded, then
\* autoInspectCreatedTabs runs up to its await (or returns at once).
Join(w, isAborted) ==
  LET f1 == RecordResults(w.f)
      created == SeqOfSet({i \in DOMAIN f1.parsed :
                             /\ f1.parsed[i].name = "create_tab"
                             /\ ~f1.parsed[i].result.deduped
                             /\ f1.parsed[i].result.tab # 0})
  IN IF isAborted THEN [w EXCEPT !.f = Return(f1, "cancelled")]
     ELSE IF Len(created) = 0 THEN [w EXCEPT !.f = NextIteration(f1, isAborted)]
     ELSE StartAutos([w EXCEPT !.f = f1], created)

\* what execute does when a callback of the fan-out has settled
Settle(w, isAborted) ==
  IF w.f.pc # "tools" THEN w
  ELSE IF \E i \in DOMAIN w.f.parsed : w.f.parsed[i].st = "thrown"
    THEN [w EXCEPT !.f = Return(@, "cancelled")]
  ELSE IF \E i \in DOMAIN w.f.parsed : w.f.parsed[i].st = "failed"
    THEN [w EXCEPT !.f = Return(@, IF isAborted THEN "cancelled" ELSE "error")]
  ELSE IF \A i \in DOMAIN w.f.parsed : w.f.parsed[i].st = "done"
    THEN Join(w, isAborted)
  ELSE w

StartCreateNoInFlightCheck(w, i, key) ==
  IF key \in DOMAIN w.f.createdTabsByUrl
    THEN [w EXCEPT !.f.parsed[i].st = "focus",
                   !.f.parsed[i].tab = w.f.createdTabsByUrl[key].id]
  ELSE Dispatch([w EXCEPT !.f.parsed[i].st = "create",
                          !.f.inFlightCreateByUrl = (key :> i) @@ @],
                "create_tab", w.f.parsed[i].callId, w.f.parsed[i].url, 0)

\* the create_tab guardrail up to its first await
StartCreate(w, i, key) ==
  IF key \in DOMAIN w.f.createdTabsByUrl
    THEN [w EXCEPT !.f.parsed[i].st = "focus",
                   !.f.parsed[i].tab = w.f.createdTabsByUrl[key].id]
  ELSE IF key \in DOMAIN w.f.inFlightCreateByUrl
    THEN [w EXCEPT !.f.parsed[i].st = "wait_inflight",
                   !.f.parsed[i].first = w.f.inFlightCreateByUrl[key]]
  ELSE Dispatch([w EXCEPT !.f.parsed[i].st = "create",
                          !.f.inFlightCreateByUrl = (key :> i) @@ @],
                "create_tab", w.f.parsed[i].callId, w.f.parsed[i].url, 0)

IsDeniedNever(call) ==
  FALSE

\* DESTRUCTIVE_TOOLS.has(funcName) && approvalsByCallId.get(callId) === false
IsDenied(call) ==
  call.name \in DESTRUCTIVE_TOOLS /\ call.approval = "denied"

\* { error: BLOCKED_SITE_ERROR, blocked: true, url }
BlockedResult(url) ==
  [NoRes EXCEPT !.error = TRUE, !.blocked = TRUE, !.url = url]

StartCallNoPolicy(w, i) ==
  LET call == w.f.parsed[i]
      key == normalizeUrlForDedup(call.url)
  IN IF IsDenied(call)
       THEN [w EXCEPT !.f = Emit([@ EXCEPT !.parsed[i].st = "done",
                                           !.parsed[i].result = DeniedResult],
                                 "tool_result", call.callId, DeniedResult)]
     ELSE IF call.name = "switch_tab" /\ call.tab # 0
       THEN [w EXCEPT !.f.parsed[i].st = "isfocused"]
     ELSE IF call.name = "create_tab" /\ key # NoKey
       THEN StartCreate(w, i, key)
     ELSE Dispatch([w EXCEPT !.f.parsed[i].st = "exec"], call.name, call.callId, call.url, 0)

\* one callback of the fan-out, up to its first await
StartCall(w, i) ==
  LET call == w.f.parsed[i]
      key == normalizeUrlForDedup(call.url)
  IN IF IsDenied(call)
       THEN [w EXCEPT !.f = Emit([@ EXCEPT !.parsed[i].st = "done",
                                           !.parsed[i].result = DeniedResult],
                                 "tool_result", call.callId, DeniedResult)]
     ELSE IF call.name = "create_tab" /\ isUrlBlocked(call.url, w.f.blockedPatterns)
       THEN [w EXCEPT !.f = Emit([@ EXCEPT !.parsed[i].st = "done",
                                           !.parsed[i].result = BlockedResult(call.url)],
                                 "tool_result", call.callId, BlockedResult(call.url))]
     ELSE IF call.name = "switch_tab" /\ call.tab # 0
       THEN [w EXCEPT !.f.parsed[i].st = "isfocused"]
     ELSE IF call.name = "create_tab" /\ key # NoKey
       THEN StartCreate(w, i, key)
     ELSE Dispatch([w EXCEPT !.f.parsed[i].st = "exec"], call.name, call.callId, call.url, 0)

\* Promise.all(parsed.map(async ...)): every callback runs up to its first await
FanOut(w, isAborted) ==
  LET RECURSIVE Go(_, _)
      Go(v, i) == IF i > Len(v.f.parsed) THEN v ELSE Go(StartCall(v, i), i + 1)
  IN Settle(Go([w EXCEPT !.f.pc = "tools", !.f.k = 0, !.f.confirmId = 0], 1), isAborted)

NextDestructiveFirstOnly(parsed, from) ==
  LET S == {i \in DOMAIN parsed : i >= from /\ from = 1 /\ parsed[i].name \in DESTRUCTIVE_TOOLS}
  IN IF S = {} THEN 0 ELSE CHOOSE i \in S : \A j \in S : i <= j

\* for (const { funcName, funcArgs, callId } of parsed) {
\*   if (!DESTRUCTIVE_TOOLS.has(funcName)) continue; ...
NextDestructive(parsed, from) ==
  LET S == {i \in DOMAIN parsed : i >= from /\ parsed[i].name \in DESTRUCTIVE_TOOLS}
  IN IF S = {} THEN 0 ELSE CHOOSE i \in S : \A j \in S : i <= j

NoPortDecisionAlwaysApprove(source) ==
  "approved"

\* requestToolConfirmation without a popup port: return source === "voice"
NoPortDecision(source) ==
  IF source = "voice" THEN "approved" ELSE "denied"

Decide(f, i, approval, why) ==
  [f EXCEPT !.parsed[i].approval = approval,
            !.parsed[i].why = why,
            !.decisions = Append(@, [callId |-> f.parsed[i].callId,
                                     tcid |-> f.parsed[i].tcid,
                                     iteration |-> f.iteration,
                                     confirmId |-> IF why = "noport" THEN 0 ELSE f.confirmId,
                                     approval |-> approval,
                                     why |-> why])]

\* the approvals loop of a pass from call number `from` on: it ends in the
\* fan-out, or at the first confirmation that has to wait for the popup
\* (pc "confirm"; the caller registers the pending confirmation).
ApprovalsFrom(w, from, port, newConfirmId, isAborted) ==
  LET RECURSIVE Go(_, _)
      Go(v, k) ==
        LET i == NextDestructive(v.f.parsed, k)
        IN IF i = 0 THEN FanOut(v, isAborted)
           ELSE IF isAborted THEN [v EXCEPT !.f = Return(@, "cancelled")]
           ELSE IF port = 0
             THEN Go([v EXCEPT !.f = Decide(@, i, NoPortDecision(v.f.source), "noport")], i + 1)
           ELSE [v EXCEPT !.f.pc = "confirm", !.f.k = i, !.f.confirmId = newConfirmId]
  IN Go(w, from)

ParsedCalls(plan, iteration, firstCallId) ==
  [i \in DOMAIN plan |->
     [name |-> plan[i].name, url |-> plan[i].url,
      tcid |-> [kind |-> "call", iteration |-> iteration, index |-> i],
      callId |-> firstCallId + i - 1, approval |-> "none", why |-> "none",
      st |-> "new", result |-> NoRes, tab |-> plan[i].tabId, first |-> 0]]

EmitToolCalls(f) ==
  LET RECURSIVE Go(_, _)
      Go(g, i) == IF i > Len(f.parsed) THEN g
                  ELSE Go(Emit(g, "tool_call", f.parsed[i].callId, NoRes), i + 1)
  IN Go(f, 1)

\* the variables a synchronous stretch of execute leaves behind
Commit(c, w) ==
  /\ ex' = [ex EXCEPT ![c] = w.f]
  /\ dispatched' = [dispatched EXCEPT ![c] = w.d]
  /\ callIdCounter' = w.n
  /\ IF w.f.pc = "confirm" /\ w.f.confirmId = confirmIdCounter + 1
       THEN /\ confirmIdCounter' = confirmIdCounter + 1
            /\ pendingConfirmations' = pendingConfirmations \cup
                 {[confirmId |-> confirmIdCounter + 1, commandId |-> c]}
            /\ timers' = timers \cup {confirmIdCounter + 1}
     ELSE UNCHANGED <<confirmIdCounter, pendingConfirmations, timers>>

\* chatCompletion returns a message with tool calls: they are parsed and
\* announced, and the approvals loop starts.
LLMTools(c, plan, maxPasses) ==
  /\ Quiescent
  /\ ex[c].pc = "llm" /\ ex[c].llmPhase = "fetch"
  /\ c \notin aborted
  /\ ex[c].toolPasses < maxPasses
  /\ LET f == ex[c]
         f1 == [f EXCEPT !.parsed = ParsedCalls(plan, f.iteration, callIdCounter + 1),
                         !.messages = Append(@, [role |-> "assistant",
                                                 id |-> [kind |-> "none", iteration |-> 0,
                                                         index |-> 0],
                                                 calls |-> [i \in DOMAIN plan |->
                                                              [kind |-> "call",
                                                               iteration |-> f.iteration,
                                                               index |-> i]],
                                                 result |-> NoRes])]
     IN \E w \in {World(EmitToolCalls(f1), dispatched[c], callIdCounter + Len(plan))} :
        \E w1 \in {ApprovalsFrom(w, 1, popupPort, confirmIdCounter + 1, c \in aborted)} :
          Commit(c, w1)
  /\ UNCHANGED <<clientVars, orchVars, resolveLog, portVars, tabs, tabCounter, aborted>>

ClearTimeoutForgotten(ts, id) ==
  ts

\* clearTimeout(pending.timeoutId)
ClearTimeout(ts, id) ==
  ts \ {id}

\* resolvePendingConfirmation(confirmId, approved)
resolvePendingConfirmation(id, approved, by) ==
  LET hit == {p \in pendingConfirmations : p.confirmId = id}
  IN /\ pendingConfirmations' = pendingConfirmations \ hit
     /\ timers' = IF hit = {} THEN timers ELSE ClearTimeout(timers, id)
     /\ resolveLog' = LogResolves(resolveLog, hit, approved)
     /\ ex' = Deliver(ex, {p.confirmId : p \in hit}, IF approved THEN "approved" ELSE "denied", by)

\* handlePopupMessage, case "confirm_response"
ConfirmResponse(id, approved) ==
  /\ Quiescent
  /\ connected # {}
  /\ resolvePendingConfirmation(id, approved, "response")
  /\ UNCHANGED <<clientVars, orchVars, confirmIdCounter, portVars, browserVars, callIdCounter, aborted>>

ConfirmTimeoutKeepsEntry(id) ==
  /\ Quiescent
  /\ id \in timers
  /\ timers' = timers \ {id}
  /\ pendingConfirmations' = pendingConfirmations
  /\ resolveLog' = Append(resolveLog, [confirmId |-> id, approved |-> FALSE])
  /\ ex' = Deliver(ex, {id}, "denied", "timeout")
  /\ UNCHANGED <<clientVars, orchVars, confirmIdCounter, portVars, browserVars, callIdCounter, aborted>>

\* the setTimeout callback of requestToolConfirmation
ConfirmTimeout(id) ==
  /\ Quiescent
  /\ id \in timers
  /\ timers' = timers \ {id}
  /\ pendingConfirmations' = {p \in pendingConfirmations : p.confirmId # id}
  /\ resolveLog' = Append(resolveLog, [confirmId |-> id, approved |-> FALSE])
  /\ ex' = Deliver(ex, {id}, "denied", "timeout")
  /\ UNCHANGED <<clientVars, orchVars, confirmIdCounter, portVars, browserVars, callIdCounter, aborted>>

\* execute resumes from the await of confirmFn with the decision
ConfirmWake(c) ==
  /\ ex[c].pc = "confirm"
  /\ ex[c].wake \in {"approved", "denied"}
  /\ LET f == ex[c]
         f1 == Decide([f EXCEPT !.wake = "none", !.wakeBy = "none"], f.k, f.wake, f.wakeBy)
     IN \E w \in {World(f1, dispatched[c], callIdCounter)} :
        \E w1 \in {ApprovalsFrom(w, f.k + 1, popupPort, confirmIdCounter + 1, c \in aborted)} :
          Commit(c, w1)
  /\ UNCHANGED <<clientVars, orchVars, resolveLog, portVars, tabs, tabCounter, aborted>>

\* ---- the executor: capability calls of a pass settle ---------------------
OkResult ==
  NoRes

ErrorResult ==
  [NoRes EXCEPT !.error = TRUE]

ToolRegistryExecuteRethrows(ok) ==
  IF ok THEN OkResult ELSE [ErrorResult EXCEPT !.thrown = TRUE]

\* ToolRegistry.execute(name, args): an unknown name, a capability that
\* throws and a capability that returns {error} all end in an {error} result
ToolRegistryExecute(ok) ==
  IF ok THEN OkResult ELSE ErrorResult

DedupedResult(tab) ==
  [NoRes EXCEPT !.deduped = TRUE, !.tab = tab]

\* a callback of the fan-out ends: throwIfAborted, then the tool-result event
Finish(w, i, result, isAborted) ==
  IF isAborted THEN [w EXCEPT !.f.parsed[i].st = "thrown"]
  ELSE IF result.thrown THEN [w EXCEPT !.f.parsed[i].st = "failed"]
  ELSE [w EXCEPT !.f = Emit([@ EXCEPT !.parsed[i].st = "done", !.parsed[i].result = result],
                            "tool_result", w.f.parsed[i].callId, result)]

\* the generic path: await ToolRegistry.execute(funcName, funcArgs) has settled
ToolDone(c, i, ok) ==
  /\ Quiescent
  /\ i \in DOMAIN ex[c].parsed
  /\ ex[c].parsed[i].st = "exec"
  /\ LET res == ToolRegistryExecute(ok)
     IN \E w \in {Finish(World(ex[c], dispatched[c], callIdCounter), i, res, c \in aborted)} :
        \E w1 \in {Settle(w, c \in aborted)} :
          Commit(c, w1)
  /\ UNCHANGED <<clientVars, orchVars, resolveLog, portVars, tabs, tabCounter, aborted>>

\* the generic path for close_tabs({tabIds: [id]}): closeTabs has settled; it
\* refuses to close the last tab, otherwise the tab is gone
CloseDone(c, i, id) ==
  /\ Quiescent
  /\ i \in DOMAIN ex[c].parsed
  /\ ex[c].parsed[i].st = "exec"
  /\ ex[c].parsed[i].name = "close_tabs"
  /\ id \in {t.id : t \in tabs}
  /\ LET refused == closingAll({t.id : t \in tabs}, {id})
     IN /\ tabs' = IF refused THEN tabs ELSE {t \in tabs : t.id # id}
        /\ \E w \in {Finish(World(ex[c], dispatched[c], callIdCounter), i,
                              ToolRegistryExecute(~refused), c \in aborted)} :
           \E w1 \in {Settle(w, c \in aborted)} :
             Commit(c, w1)
  /\ UNCHANGED <<clientVars, orchVars, resolveLog, portVars, tabCounter, aborted>>

RemoveKey(m, key) ==
  [k \in DOMAIN m \ {key} |-> m[k]]

ResultKeyFromRequest(reported, requested) ==
  normalizeUrlForDedup(requested)

\* normalizeUrlForDedup((result && result.tab && result.tab.url) || funcArgs.url)
ResultKey(reported, requested) ==
  normalizeUrlForDedup(IF reported # EmptyUrl THEN reported ELSE requested)

\* the calls of the pass that await the in-flight creation of call i resume
\* after it, in the order in which they began to wait
ResumeWaiters(w, i, result, isAborted) ==
  LET RECURSIVE Go(_, _)
      Go(v, j) ==
        IF j > Len(v.f.parsed) THEN v
        ELSE IF ~(v.f.parsed[j].st = "wait_inflight" /\ v.f.parsed[j].first = i)
          THEN Go(v, j + 1)
        ELSE IF isAborted THEN Go([v EXCEPT !.f.parsed[j].st = "thrown"], j + 1)
        ELSE IF result.tab # 0
          THEN Go([v EXCEPT !.f.parsed[j].st = "focus", !.f.parsed[j].tab = result.tab], j + 1)
        ELSE Go(Dispatch([v EXCEPT !.f.parsed[j].st = "create",
                                   !.f.inFlightCreateByUrl =
                                      (normalizeUrlForDedup(v.f.parsed[j].url) :> j) @@ @],
                         "create_tab", v.f.parsed[j].callId, v.f.parsed[j].url, 0), j + 1)
  IN Go(w, 1)

\* what browser.tabs.create reports as the url of the tab it has just opened
ReportedUrls(requested) ==
  {requested, EmptyUrl, AboutBlank}

\* the create_tab guardrail: await createPromise has settled
CreateDone(c, i, ok, reported) ==
  /\ Quiescent
  /\ i \in DOMAIN ex[c].parsed
  /\ ex[c].parsed[i].st = "create"
  /\ LET call == ex[c].parsed[i]
         key == normalizeUrlForDedup(call.url)
         id == tabCounter + 1
         res == IF ok THEN [NoRes EXCEPT !.tab = id, !.url = reported] ELSE ErrorResult
         resultKey == ResultKey(res.url, call.url)
         f0 == ex[c]
         f1 == [f0 EXCEPT !.inFlightCreateByUrl = RemoveKey(@, key)]
         f2 == IF (c \notin aborted) /\ ok /\ resultKey # NoKey
                 THEN [f1 EXCEPT !.createdTabsByUrl =
                                    (resultKey :> [id |-> id, url |-> reported]) @@ @]
               ELSE f1
     IN /\ \E w \in {Finish(World(f2, dispatched[c], callIdCounter), i, res, c \in aborted)} :
           \E w1 \in {ResumeWaiters(w, i, res, c \in aborted)} :
           \E w2 \in {Settle(w1, c \in aborted)} :
             Commit(c, w2)
        /\ IF ok
             THEN /\ tabs' = tabs \cup {[id |-> id, url |-> call.url]}
                  /\ tabCounter' = id
           ELSE UNCHANGED <<tabs, tabCounter>>
  /\ UNCHANGED <<clientVars, orchVars, resolveLog, portVars, aborted>>

\* the create_tab guardrail: await isTabAlreadyFocused(tab.id) has settled
FocusDone(c, i, focused) ==
  /\ Quiescent
  /\ i \in DOMAIN ex[c].parsed
  /\ ex[c].parsed[i].st = "focus"
  /\ focused => \E t \in tabs : t.id = ex[c].parsed[i].tab
  /\ LET w == World(ex[c], dispatched[c], callIdCounter)
         call == ex[c].parsed[i]
     IN IF focused
          THEN \E w1 \in {Finish(w, i, DedupedResult(call.tab), c \in aborted)} :
               \E w2 \in {Settle(w1, c \in aborted)} :
                 Commit(c, w2)
        ELSE \E w1 \in {Dispatch([w EXCEPT !.f.parsed[i].st = "switch"], "switch_tab",
                                   call.callId, EmptyUrl, call.tab)} :
               Commit(c, w1)
  /\ UNCHANGED <<clientVars, orchVars, resolveLog, portVars, tabs, tabCounter, aborted>>

\* the create_tab guardrail: await ToolRegistry.execute("switch_tab") has settled
SwitchDone(c, i) ==
  /\ Quiescent
  /\ i \in DOMAIN ex[c].parsed
  /\ ex[c].parsed[i].st = "switch"
  /\ \E w \in {Finish(World(ex[c], dispatched[c], callIdCounter), i,
                        DedupedResult(ex[c].parsed[i].tab), c \in aborted)} :
     \E w1 \in {Settle(w, c \in aborted)} :
       Commit(c, w1)
  /\ UNCHANGED <<clientVars, orchVars, resolveLog, portVars, tabs, tabCounter, aborted>>

\* ---- the executor: the switch_tab guardrail -------------------------------
\* { success: true, skipped: true, alreadyFocused: true, tabId }
SkippedResult(tabId) ==
  [NoRes EXCEPT !.skipped = TRUE, !.tab = tabId]

SwitchKind(result) ==
  IF result.error THEN "error" ELSE "ok"

\* { success: true, deduped: true, tabId, switch: firstSwitchResult }
DedupedSwitch(tabId, firstSwitchResult) ==
  [NoRes EXCEPT !.deduped = TRUE, !.tab = tabId, !.switch = SwitchKind(firstSwitchResult)]

inFlightSwitchNever(f, tabId) ==
  0

\* inFlightSwitchByTab.get(tabId): the call whose switch is in flight, or none
inFlightSwitch(f, tabId) ==
  IF tabId \in DOMAIN f.inFlightSwitchByTab THEN f.inFlightSwitchByTab[tabId] ELSE 0

\* the switch_tab guardrail: await isTabAlreadyFocused(tabId) has settled
SwitchFocusDone(c, i, alreadyFocused) ==
  /\ Quiescent
  /\ i \in DOMAIN ex[c].parsed
  /\ ex[c].parsed[i].st = "isfocused"
  /\ LET w == World(ex[c], dispatched[c], callIdCounter)
         call == ex[c].parsed[i]
         first == inFlightSwitch(ex[c], call.tab)
     IN \E w1 \in {IF alreadyFocused THEN Finish(w, i, SkippedResult(call.tab), FALSE)
                    ELSE IF first # 0
                      THEN [w EXCEPT !.f.parsed[i].st = "wait_switch",
                                     !.f.parsed[i].first = first]
                    ELSE IF c \in aborted THEN [w EXCEPT !.f.parsed[i].st = "thrown"]
                    ELSE Dispatch([w EXCEPT !.f.parsed[i].st = "switching",
                                            !.f.inFlightSwitchByTab = (call.tab :> i) @@ @],
                                  "switch_tab", call.callId, EmptyUrl, call.tab)} :
        \E w2 \in {Settle(w1, c \in aborted)} :
          Commit(c, w2)
  /\ UNCHANGED <<clientVars, orchVars, resolveLog, portVars, tabs, tabCounter, aborted>>

\* the calls that await the in-flight switch of call i resume after it
ResumeSwitchWaiters(w, i, firstSwitchResult, isAborted) ==
  LET RECURSIVE Go(_, _)
      Go(v, j) ==
        IF j > Len(v.f.parsed) THEN v
        ELSE IF ~(v.f.parsed[j].st = "wait_switch" /\ v.f.parsed[j].first = i)
          THEN Go(v, j + 1)
        ELSE Go(Finish(v, j, DedupedSwitch(v.f.parsed[j].tab, firstSwitchResult), isAborted),
                j + 1)
  IN Go(w, 1)

\* the switch_tab guardrail: await switchPromise has settled
SwitchExecDone(c, i, ok) ==
  /\ Quiescent
  /\ i \in DOMAIN ex[c].parsed
  /\ ex[c].parsed[i].st = "switching"
  /\ LET res == ToolRegistryExecute(ok)
         f1 == [ex[c] EXCEPT !.inFlightSwitchByTab = RemoveKey(@, ex[c].parsed[i].tab)]
     IN \E w \in {Finish(World(f1, dispatched[c], callIdCounter), i, res, c \in aborted)} :
        \E w1 \in {ResumeSwitchWaiters(w, i, res, c \in aborted)} :
        \E w2 \in {Settle(w1, c \in aborted)} :
          Commit(c, w2)
  /\ UNCHANGED <<clientVars, orchVars, resolveLog, portVars, tabs, tabCounter, aborted>>

\* ---- the executor: automatic follow-up -----------------------------------
\* autoInspectCreatedTabs: the wait_for_page of one created tab has settled
AutoWaitDone(c, j) ==
  /\ Quiescent
  /\ j \in DOMAIN ex[c].autos
  /\ ex[c].autos[j].st = "wait"
  /\ LET a == ex[c].autos[j]
         f1 == Emit(ex[c], "tool_result", a.waitCallId, OkResult)
         id == callIdCounter + 1
         w == World(f1, dispatched[c], callIdCounter)
     IN \E w1 \in {IF c \in aborted
                      THEN [w EXCEPT !.f = IF f1.pc = "auto"
                                             THEN Return([f1 EXCEPT !.autos[j].st = "thrown"],
                                                         "cancelled")
                                           ELSE [f1 EXCEPT !.autos[j].st = "thrown"]]
                    ELSE Dispatch([w EXCEPT !.n = id,
                                            !.f = Emit([@ EXCEPT !.autos[j].st = "inspect",
                                                                 !.autos[j].inspectCallId = id],
                                                       "tool_call", id, NoRes)],
                                  "inspect_page", id, EmptyUrl, a.tabId)} :
          Commit(c, w1)
  /\ UNCHANGED <<clientVars, orchVars, resolveLog, portVars, tabs, tabCounter, aborted>>

AutoCall(callId, name, id) ==
  [callId |-> callId, name |-> name, tcid |-> id, result |-> OkResult]

AutoId(kind, iteration, a) ==
  [kind |-> kind, iteration |-> iteration, index |-> a.index]

\* the tail of autoInspectCreatedTabs: the follow-up calls go to allToolCalls
\* and, as a synthetic assistant message with its tool messages, to the transcript
RecordAutos(f) ==
  LET n == Len(f.autos)
      ids == [m \in 1..(2 * n) |->
                IF m % 2 = 1 THEN AutoId("auto_wait", f.iteration, f.autos[(m + 1) \div 2])
                ELSE AutoId("auto_inspect", f.iteration, f.autos[m \div 2])]
      calls == [m \in 1..(2 * n) |->
                  IF m % 2 = 1
                    THEN AutoCall(f.autos[(m + 1) \div 2].waitCallId, "wait_for_page", ids[m])
                  ELSE AutoCall(f.autos[m \div 2].inspectCallId, "inspect_page", ids[m])]
      none == [kind |-> "none", iteration |-> 0, index |-> 0]
  IN [f EXCEPT !.allToolCalls = @ \o calls,
               !.messages = (@ \o <<[role |-> "assistant", id |-> none, calls |-> ids,
                                     result |-> NoRes]>>)
                            \o [m \in 1..(2 * n) |->
                                  [role |-> "tool", id |-> ids[m], calls |-> <<>>,
                                   result |-> OkResult]]]

\* autoInspectCreatedTabs: the inspect_page of one created tab has settled;
\* with the last one the follow-up returns and the loop goes to its head
AutoInspectDone(c, j) ==
  /\ Quiescent
  /\ j \in DOMAIN ex[c].autos
  /\ ex[c].autos[j].st = "inspect"
  /\ LET a == ex[c].autos[j]
         f1 == Emit([ex[c] EXCEPT !.autos[j].st = "done"], "tool_result", a.inspectCallId,
                    OkResult)
     IN \E f2 \in {f1} :
        \E f3 \in {IF f2.pc = "auto" /\ \A m \in DOMAIN f2.autos : f2.autos[m].st = "done"
                     THEN NextIteration(RecordAutos(f2), c \in aborted)
                   ELSE f2} :
          Commit(c, World(f3, dispatched[c], callIdCounter))
  /\ UNCHANGED <<clientVars, orchVars, resolveLog, portVars, tabs, tabCounter, aborted>>

\* ---- specification -------------------------------------------------------
\* ---- LLMClient: the model ring -------------------------------------------
MODEL_RING ==
  <<"gpt-5-nano", "gpt-4.1-mini", "gpt-4o-mini", "gpt-5-mini", "gpt-4.1", "gpt-4o",
    "gpt-5", "gpt-5.1", "gpt-5.1-chat-latest">>

Ring ==
  DOMAIN MODEL_RING

\* log.filter((t) => now - t < RPM_WINDOW_MS)
Recent(log, t) ==
  SelectSeq(log, LAMBDA x : t - x < RPM_WINDOW_MS)

HasBudgetOffByOne(recent) ==
  Len(recent) <= RPM_LIMIT

\* if (recent.length < RPM_LIMIT)
HasBudget(recent) ==
  Len(recent) < RPM_LIMIT

Least(S) ==
  CHOOSE x \in S : \A y \in S : x <= y

nextModelTiesToLast(mcl, t) ==
  LET recent(i) == Recent(mcl[i], t)
      free == {i \in Ring : HasBudget(recent(i))}
      wait(i) == RPM_WINDOW_MS - (t - recent(i)[1])
      soonest == {i \in Ring : \A j \in Ring : wait(i) <= wait(j)}
      pick == IF free # {} THEN Least(free)
              ELSE CHOOSE i \in soonest : \A j \in soonest : j <= i
  IN [model |-> MODEL_RING[pick],
      had |-> Len(recent(pick)),
      log |-> [i \in Ring |->
                 IF i = pick THEN Append(recent(i), t)
                 ELSE IF free = {} \/ i < pick THEN recent(i)
                 ELSE mcl[i]]]

\* nextModel at time t on the call log mcl (indexed as MODEL_RING is): the
\* first model of the ring with budget, else the model whose oldest call
\* expires soonest (the first of them in ring order).  The loop filters the
\* logs of the models it visits; the fallback is reached with every log
\* filtered.  "had" is the length of the chosen model's filtered log before
\* the push.
nextModel(mcl, t) ==
  LET recent(i) == Recent(mcl[i], t)
      free == {i \in Ring : HasBudget(recent(i))}
      wait(i) == RPM_WINDOW_MS - (t - recent(i)[1])
      soonest == {i \in Ring : \A j \in Ring : wait(i) <= wait(j)}
      pick == IF free # {} THEN Least(free) ELSE Least(soonest)
  IN [model |-> MODEL_RING[pick],
      had |-> Len(recent(pick)),
      log |-> [i \in Ring |->
                 IF i = pick THEN Append(recent(i), t)
                 ELSE IF free = {} \/ i < pick THEN recent(i)
                 ELSE mcl[i]]]

NoPick ==
  [model |-> "none", had |-> 0, window |-> 0, free |-> FALSE]

\* The bookkeeping of one call of nextModel: how many calls of nextModel
\* the trailing window held before this one, and whether some model of the
\* ring had fewer than RPM_LIMIT calls in that window.
CallNextModel(pick) ==
  /\ modelCallLog' = pick.log
  /\ lastPick' = [model |-> pick.model, had |-> pick.had,
                  window |-> Len(Recent(requestTimes, now)),
                  free |-> \E i \in Ring : Len(Recent(modelCallLog[i], now)) < RPM_LIMIT]
  /\ requestTimes' = Append(Recent(requestTimes, now), now)

\* A request asks for a model.
RingRequest(maxInWindow) ==
  /\ Len(Recent(requestTimes, now)) < maxInWindow
  /\ \E pick \in {nextModel(modelCallLog, now)} : CallNextModel(pick)
  /\ UNCHANGED <<orchVars, confirmVars, portVars, browserVars, sideVars, callIdCounter, aborted, ex, summary,
                 now, tokenParamCache, req>>

\* Time passes.
Tick(step, maxNow) ==
  /\ now + step <= maxNow
  /\ now' = now + step
  /\ UNCHANGED <<orchVars, confirmVars, portVars, browserVars, sideVars, callIdCounter, aborted, ex, summary,
                 modelCallLog, tokenParamCache, req, lastPick, requestTimes>>

\* ---- LLMClient: requests --------------------------------------------------
\* config.model in Ollama mode: a local model, or DEFAULTS.model left as it is
OllamaModels ==
  {"llama3.1", "gpt-5-nano"}

Models ==
  {MODEL_RING[i] : i \in DOMAIN MODEL_RING} \cup OllamaModels

\* What a fetch can be answered with: the status and what the code looks for
\* in the body (ms: the delay a 429 body names, in milliseconds).
Responses ==
  {[status |-> 200, body |-> "choices", ms |-> 0],
   [status |-> 200, body |-> "no choices", ms |-> 0],
   [status |-> 400, body |-> "unsupported_parameter", ms |-> 0],
   [status |-> 400, body |-> "other", ms |-> 0],
   [status |-> 429, body |-> "try again in s", ms |-> 2388],
   [status |-> 429, body |-> "retry after ms", ms |-> 500],
   [status |-> 429, body |-> "other", ms |-> 0],
   [status |-> 500, body |-> "other", ms |-> 0]}

NoResponse ==
  [status |-> 0, body |-> "none", ms |-> 0]

\* One call of chatCompletion by execute, with the request it has in flight.
\*   pc: "idle" | "fetch" (first fetch of tryModel) | "refetch" (its retry
\*       with the other shape) | "sleep" (back-off after a 429) | "settled"
\*   signal: the caller's signal has fired;  controller: the controller of
\*   fetchWithTimeout has aborted;  listener: onExternalAbort is registered
NoRequest ==
  [pc |-> "idle", n |-> 0, provider |-> "none", model |-> "none", attempt |-> 0,
   cached |-> "none", sent |-> "none", shapeRetries |-> 0, fetches |-> 0, settles |-> 0,
   timer |-> "none", timedOut |-> FALSE, controller |-> FALSE, listener |-> FALSE,
   startedAt |-> 0, sleepUntil |-> 0, signal |-> FALSE,
   last |-> NoResponse, err |-> "none", result |-> "none"]

Other(shape) ==
  IF shape = "new" THEN "old" ELSE "new"

\* fetchWithTimeout up to its await of fetch
StartFetch(r, shape, t) ==
  [r EXCEPT !.sent = shape,
            !.fetches = @ + 1,
            !.controller = r.signal,
            !.listener = ~r.signal,
            !.timer = "set",
            !.timedOut = FALSE,
            !.startedAt = t]

FinallyKeepsTimer(r) ==
  [r EXCEPT !.listener = FALSE, !.settles = @ + 1]

\* finally { clearTimeout(timeoutId); removeEventListener(...) }
Finally(r) ==
  [r EXCEPT !.timer = "none", !.listener = FALSE, !.settles = @ + 1]

\* tryModel up to its first await
tryModel(r, model, cache, t) ==
  LET cached == cache[model]
      tryNew == cached = "new" \/ cached = "none"
  IN StartFetch([r EXCEPT !.pc = "fetch", !.model = model, !.cached = cached,
                          !.shapeRetries = 0],
                IF tryNew THEN "new" ELSE "old", t)

parse429Delay(errorText) ==
  IF errorText.body = "try again in s" THEN errorText.ms + 200
  ELSE IF errorText.body = "retry after ms" THEN errorText.ms + 200
  ELSE 3000

isAbortError(err) ==
  err = "AbortError"

\* catch (err) of execute around chatCompletion, and its normal return
CatchKind(err, signalAborted) ==
  IF err = "none" THEN "response"
  ELSE IF isAbortError(err) \/ signalAborted THEN "cancelled"
  ELSE "error"

\* chatCompletion throws err (or returns, err = "none") into execute
SettleRequest(r, err) ==
  [r EXCEPT !.pc = "settled", !.err = err, !.result = CatchKind(err, r.signal)]

CanRetryOnceMore(attempt) ==
  attempt <= MAX_429_RETRIES

\* response.status === 429 && attempt < MAX_429_RETRIES
CanRetry(attempt) ==
  attempt < MAX_429_RETRIES

\* chatCompletion once tryModel has returned response resp
HandleResponse(r0, resp, t) ==
  LET r == [r0 EXCEPT !.last = resp] IN
    IF resp.status = 200
      THEN SettleRequest(r, IF resp.body = "choices" THEN "none" ELSE "no choices")
    ELSE IF r.provider = "openai" /\ resp.status = 429 /\ CanRetry(r.attempt)
      THEN [r EXCEPT !.pc = "sleep", !.sleepUntil = t + parse429Delay(resp)]
    ELSE SettleRequest(r, "api")

FetchErrorAlwaysAbort(timedOut) ==
  "AbortError"

\* catch (err) of fetchWithTimeout when the controller has aborted the fetch
FetchError(timedOut) ==
  IF timedOut THEN "timeout" ELSE "AbortError"

\* if (!response.ok && response.status === 400 && !cached)
\*   if (errorText.includes("unsupported_parameter"))
ShapeRetry(r, resp) ==
  resp.status = 400 /\ r.cached = "none" /\ resp.body = "unsupported_parameter"

\* execute calls chatCompletion: Ollama mode writes the cache and calls
\* tryModel with config.model; OpenAI mode starts the retry loop with the
\* model nextModel gives.
ChatCompletion(maxRequests) ==
  /\ req.pc \in {"idle", "settled"}
  /\ req.n < maxRequests
  /\ \E r \in {[NoRequest EXCEPT !.n = req.n + 1]} :
       \/ /\ \E pick \in {nextModel(modelCallLog, now)} :
               /\ CallNextModel(pick)
               /\ req' = tryModel([r EXCEPT !.provider = "openai"], pick.model,
                                  tokenParamCache, now)
          /\ UNCHANGED tokenParamCache
       \/ /\ \E model \in OllamaModels :
               \E cache \in {[tokenParamCache EXCEPT ![model] = "old"]} :
                 /\ tokenParamCache' = cache
                 /\ req' = tryModel([r EXCEPT !.provider = "ollama"], model, cache, now)
          /\ UNCHANGED <<modelCallLog, lastPick, requestTimes>>
  /\ UNCHANGED <<orchVars, confirmVars, portVars, browserVars, sideVars, callIdCounter, aborted, ex, summary, now>>

\* The fetch in flight is answered.  tryModel retries once with the other
\* shape, or writes the cache and returns the response to chatCompletion.
FetchResponds(resp) ==
  /\ req.pc \in {"fetch", "refetch"}
  /\ ~req.controller
  /\ \E r \in {Finally(req)} :
       IF req.pc = "fetch" /\ ShapeRetry(r, resp)
         THEN /\ req' = StartFetch([r EXCEPT !.pc = "refetch", !.last = resp,
                                             !.shapeRetries = @ + 1],
                                   Other(r.sent), now)
              /\ UNCHANGED tokenParamCache
       ELSE /\ tokenParamCache' =
                 IF resp.status = 200 /\ (req.pc = "refetch" \/ r.cached = "none")
                   THEN [tokenParamCache EXCEPT ![r.model] = r.sent]
                 ELSE tokenParamCache
            /\ req' = HandleResponse(r, resp, now)
  /\ UNCHANGED <<orchVars, confirmVars, portVars, browserVars, sideVars, callIdCounter, aborted, ex, summary,
                 now, modelCallLog, lastPick, requestTimes>>

\* The fetch in flight rejects: with an AbortError when its controller has
\* aborted, with a network error otherwise.  Nothing between fetchWithTimeout
\* and execute catches it.
FetchRejects ==
  /\ req.pc \in {"fetch", "refetch"}
  /\ req' = SettleRequest([Finally(req) EXCEPT !.last = NoResponse],
                          IF req.controller THEN FetchError(req.timedOut) ELSE "network")
  /\ UNCHANGED <<orchVars, confirmVars, portVars, browserVars, sideVars, callIdCounter, aborted, ex, summary,
                 now, modelCallLog, tokenParamCache, lastPick, requestTimes>>

\* setTimeout(() => { timedOut = true; controller.abort(); }, REQUEST_TIMEOUT_MS)
TimeoutFires ==
  /\ req.timer = "set"
  /\ now - req.startedAt >= REQUEST_TIMEOUT_MS
  /\ req' = [req EXCEPT !.timer = "none", !.timedOut = TRUE, !.controller = TRUE]
  /\ UNCHANGED <<orchVars, confirmVars, portVars, browserVars, sideVars, callIdCounter, aborted, ex, summary,
                 now, modelCallLog, tokenParamCache, lastPick, requestTimes>>

\* The caller's signal fires while chatCompletion is under way.
SignalAborts ==
  /\ req.pc \in {"fetch", "refetch", "sleep"}
  /\ ~req.signal
  /\ req' = [req EXCEPT !.signal = TRUE,
                        !.controller = @ \/ req.listener,
                        !.listener = FALSE]
  /\ UNCHANGED <<orchVars, confirmVars, portVars, browserVars, sideVars, callIdCounter, aborted, ex, summary,
                 now, modelCallLog, tokenParamCache, lastPick, requestTimes>>

\* The back-off sleep is over: the next attempt of the retry loop.
SleepOver ==
  /\ req.pc = "sleep"
  /\ now >= req.sleepUntil
  /\ \E pick \in {nextModel(modelCallLog, now)} :
       /\ CallNextModel(pick)
       /\ req' = tryModel([req EXCEPT !.attempt = @ + 1], pick.model, tokenParamCache, now)
  /\ UNCHANGED <<orchVars, confirmVars, portVars, browserVars, sideVars, callIdCounter, aborted, ex, summary,
                 now, tokenParamCache>>

\* ---- the completion summary ----------------------------------------------
\* A text is a sequence of characters; Null is null or undefined.
Null ==
  [null |-> TRUE, s |-> <<>>]

Text(chars) ==
  [null |-> FALSE, s |-> chars]

\* String(text || "")
StringOf(text) ==
  IF text.null THEN <<>> ELSE text.s

IsSpace(ch) ==
  ch = " "

RECURSIVE TrimStart(_)
TrimStart(s) ==
  IF s # <<>> /\ IsSpace(Head(s)) THEN TrimStart(Tail(s)) ELSE s

RECURSIVE TrimEnd(_)
TrimEnd(s) ==
  IF s # <<>> /\ IsSpace(s[Len(s)]) THEN TrimEnd(SubSeq(s, 1, Len(s) - 1)) ELSE s

Trim(s) ==
  TrimEnd(TrimStart(s))

truncateText(text, maxLength) ==
  LET str == Trim(StringOf(text)) IN
    IF str = <<>> THEN <<>>
    ELSE IF Len(str) <= maxLength THEN str
    ELSE TrimEnd(SubSeq(str, 1, Max(0, maxLength - 3))) \o <<".", ".", ".">>

\* str.match(/.+?[.!?](?:\s|$)/) on a text without line breaks: the match
\* starts at the first character and ends at the first terminator, from the
\* second character on, that is followed by white space or by the end.
firstSentence(text) ==
  LET str == Trim(StringOf(text))
      ends == {k \in 2..Len(str) :
                 str[k] \in {".", "!", "?"} /\ (k = Len(str) \/ IsSpace(str[k + 1]))}
  IN IF str = <<>> THEN <<>>
     ELSE IF ends = {} THEN str
     ELSE Trim(SubSeq(str, 1, Least(ends)))

ToLower(ch) ==
  IF ch = "E" THEN "e" ELSE IF ch = "R" THEN "r" ELSE IF ch = "O" THEN "o" ELSE ch

\* String(error).replace(/^Error:\s*/i, "")
StripErrorPrefix(s) ==
  IF Len(s) >= 6 /\ [i \in 1..6 |-> ToLower(s[i])] = <<"e", "r", "r", "o", "r", ":">>
    THEN TrimStart(SubSeq(s, 7, Len(s)))
  ELSE s

\* The results of the capabilities, as far as summarizeToolForNotification
\* looks at them (-1: the field is absent).
ToolResult(error, success, count, closedCount) ==
  [error |-> error, success |-> success, count |-> count, closedCount |-> closedCount]

ToolCall(name, result) ==
  [name |-> name, result |-> result]

\* summarizeToolForNotification: <<>> for null, else the one line
summarizeToolForNotification(toolCall) ==
  LET result == toolCall.result IN
    IF result.error THEN <<>>
    ELSE IF toolCall.name = "list_tabs"
      THEN IF result.count >= 0 THEN <<[line |-> "tabs found", n |-> result.count]>> ELSE <<>>
    ELSE IF toolCall.name = "close_tabs"
      THEN IF result.closedCount >= 0
             THEN <<[line |-> "Closed tabs", n |-> result.closedCount]>> ELSE <<>>
    ELSE IF toolCall.name = "create_tab"
      THEN <<[line |-> "Opened new tab", n |-> 0]>>
    ELSE IF result.success THEN <<[line |-> "done", n |-> 0]>>
    ELSE <<>>

\* for (i = toolCalls.length - 1; i >= 0; i--): the lines found from
\* position i down, put in front of those found so far, until there are two
RECURSIVE Highlights(_, _, _)
Highlights(toolCalls, i, found) ==
  IF i = 0 \/ Len(found) >= 2 THEN found
  ELSE Highlights(toolCalls, i - 1, summarizeToolForNotification(toolCalls[i]) \o found)

NoSummary ==
  [kind |-> "none", text |-> <<>>, lines |-> <<>>, completed |-> 0, failed |-> 0]

Summary(kind, text, lines, completed, failed) ==
  [kind |-> kind, text |-> text, lines |-> lines, completed |-> completed, failed |-> failed]

Truthy(text) ==
  ~text.null /\ text.s # <<>>

buildCompletionSummaryResponseFirst(response, error, toolCalls, cancelled) ==
  IF cancelled THEN Summary("cancelled", <<>>, <<>>, 0, 0)
  ELSE IF ~response.null /\ Trim(response.s) # <<>>
    THEN Summary("response", truncateText(Text(firstSentence(response)), 180), <<>>, 0, 0)
  ELSE IF Truthy(error)
    THEN Summary("error", truncateText(Text(StripErrorPrefix(StringOf(error))), 180),
                 <<>>, 0, 0)
  ELSE IF Len(toolCalls) > 0
    THEN LET highlights == Highlights(toolCalls, Len(toolCalls), <<>>)
             failed == Cardinality({i \in DOMAIN toolCalls : toolCalls[i].result.error})
             completed == Max(Len(toolCalls) - failed, 0)
         IN IF Len(highlights) > 0 THEN Summary("highlights", <<>>, highlights, 0, 0)
            ELSE IF failed > 0 THEN Summary("failed", <<>>, <<>>, completed, failed)
            ELSE Summary("steps", <<>>, <<>>, Len(toolCalls), 0)
  ELSE Summary("completed", <<>>, <<>>, 0, 0)

\* buildCompletionSummary: kind "cancelled" is "Command cancelled.", "steps"
\* is "N step(s) completed.", "failed" is "N steps done, M failed." and
\* "completed" is "Command completed."
buildCompletionSummary(response, error, toolCalls, cancelled) ==
  IF cancelled THEN Summary("cancelled", <<>>, <<>>, 0, 0)
  ELSE IF Truthy(error)
    THEN Summary("error", truncateText(Text(StripErrorPrefix(StringOf(error))), 180),
                 <<>>, 0, 0)
  ELSE IF ~response.null /\ Trim(response.s) # <<>>
    THEN Summary("response", truncateText(Text(firstSentence(response)), 180), <<>>, 0, 0)
  ELSE IF Len(toolCalls) > 0
    THEN LET highlights == Highlights(toolCalls, Len(toolCalls), <<>>)
             failed == Cardinality({i \in DOMAIN toolCalls : toolCalls[i].result.error})
             completed == Max(Len(toolCalls) - failed, 0)
         IN IF Len(highlights) > 0 THEN Summary("highlights", <<>>, highlights, 0, 0)
            ELSE IF failed > 0 THEN Summary("failed", <<>>, <<>>, completed, failed)
            ELSE Summary("steps", <<>>, <<>>, Len(toolCalls), 0)
  ELSE Summary("completed", <<>>, <<>>, 0, 0)

Repeat(ch, n) ==
  [i \in 1..n |-> ch]

\* result.response: null, the model's text, or the text of the max-iterations
\* result
ResponseTexts ==
  {Null, Text(<<>>), Text(<<" ">>), Text(<<"a", ".">>), Text(<<"a", "b">>),
   Text(<<" ", "a", "!", " ", "b", ".", " ">>), Text(<<".", "a", ".", "b">>),
   Text(Repeat("a", SummaryLongText)),
   Text(Repeat("a", SummaryLongText) \o <<".", " ", "b">>),
   Text(Repeat("a", 179) \o <<"?", " ", "b">>)}

\* result.error: absent, the message of an error result of execute, or
\* "Error: " and the message of the exception executeCommand caught
ErrorTexts ==
  {Null, Text(<<"L", "L", "M", " ", "e">>), Text(<<"E", "r", "r", "o", "r", ":", " ", "x">>),
   Text(<<"e", "r", "r", "o", "r", ":", "x">>), Text(Repeat("x", SummaryLongText))}

ToolCallKinds ==
  {ToolCall("list_tabs", ToolResult(FALSE, FALSE, 2, -1)),
   ToolCall("close_tabs", ToolResult(FALSE, TRUE, -1, 1)),
   ToolCall("reload_tabs", ToolResult(FALSE, TRUE, -1, -1)),
   ToolCall("inspect_page", ToolResult(FALSE, FALSE, -1, -1)),
   ToolCall("close_tabs", ToolResult(TRUE, FALSE, -1, -1))}

ToolCallLists ==
  UNION {[1..n -> ToolCallKinds] : n \in 0..SummaryToolCalls}

NoCall ==
  [response |-> Null, error |-> Null, toolCalls |-> <<>>, cancelled |-> FALSE,
   out |-> NoSummary]

\* executeCommand builds the summary of a result, or of a caught exception.
Summarize ==
  /\ summary = NoCall
  /\ \E response \in ResponseTexts : \E error \in ErrorTexts :
       \E toolCalls \in ToolCallLists : \E cancelled \in BOOLEAN :
         summary' = [response |-> response, error |-> error, toolCalls |-> toolCalls,
                     cancelled |-> cancelled,
                     out |-> buildCompletionSummary(response, error, toolCalls, cancelled)]
  /\ UNCHANGED <<orchVars, confirmVars, portVars, browserVars, sideVars, callIdCounter, aborted, ex,
                 now, modelCallLog, tokenParamCache, req, lastPick, requestTimes>>

Init ==
  /\ processing = FALSE
  /\ currentCommand = 0
  /\ commandQueue = <<>>
  /\ currentAbortController = 0
  /\ popupPort = 0
  /\ actionLog = <<>>
  /\ commandIdCounter = 0
  /\ confirmIdCounter = 0
  /\ callIdCounter = 0
  /\ pendingConfirmations = {}
  /\ timers = {}
  /\ aborted = {}
  /\ connected = {}
  /\ portCounter = 0
  /\ ex = [c \in Commands |-> NoFrame]
  /\ tabs = {}
  /\ tabCounter = 0
  /\ dispatched = [c \in Commands |-> <<>>]
  /\ promises = [c \in Commands |-> <<>>]
  /\ resolveLog = <<>>
  /\ startOrder = <<>>
  /\ now = 0
  /\ modelCallLog = [i \in Ring |-> <<>>]
  /\ tokenParamCache = [m \in Models |-> "none"]
  /\ req = NoRequest
  /\ lastPick = NoPick
  /\ requestTimes = <<>>
  /\ summary = NoCall
  /\ today = 0
  /\ popupHistory = <<>>
  /\ win = NoWindow

\* ---- Spec: the orchestrator with its confirmations, two commands ----------
Plans ==
  {<<Call("close_tabs", EmptyUrl)>>}

SpecSources ==
  {"popup", "voice"}

Next ==
  \/ \E src \in SpecSources : Submit(src, MaxCommands)
  \/ Cancel
  \/ Connect(MaxPorts)
  \/ \E p \in connected : Disconnect(p)
  \/ \E c \in Commands : Complete(c)
  \/ \E c \in Commands : BlockedPatternsDone(c)
  \/ \E c \in Commands : PrerunDone(c)
  \/ \E c \in Commands : ContextDone(c)
  \/ \E c \in Commands : AbortWake(c)
  \/ \E c \in Commands : LLMText(c)
  \/ \E c \in Commands : LLMFail(c)
  \/ \E c \in Commands : LLM429(c)
  \/ \E c \in Commands : LLMSleepDone(c)
  \/ \E c \in Commands : \E plan \in Plans : LLMTools(c, plan, MaxToolPasses)
  \/ \E id \in 1..confirmIdCounter : \E approved \in BOOLEAN : ConfirmResponse(id, approved)
  \/ \E id \in timers : ConfirmTimeout(id)
  \/ \E c \in Commands : ConfirmWake(c)
  \/ \E c \in Commands : \E i \in DOMAIN ex[c].parsed : \E ok \in BOOLEAN : ToolDone(c, i, ok)

Spec ==
  Init /\ [][Next]_vars

\* ---- SpecConfirm: one command of any source, destructive passes ----------
ConfirmPlans ==
  {<<Call("close_tabs", EmptyUrl)>>,
   <<Call("close_tabs", EmptyUrl), Call("close_duplicate_tabs", EmptyUrl)>>,
   <<Call("reload_tabs", EmptyUrl), Call("close_duplicate_tabs", EmptyUrl)>>}

NextConfirm ==
  \/ \E src \in Sources : Submit(src, ConfirmCommands)
  \/ Cancel
  \/ Connect(ConfirmPorts)
  \/ \E p \in connected : Disconnect(p)
  \/ \E c \in Commands : Complete(c)
  \/ \E c \in Commands : BlockedPatternsDone(c)
  \/ \E c \in Commands : PrerunDone(c)
  \/ \E c \in Commands : ContextDone(c)
  \/ \E c \in Commands : AbortWake(c)
  \/ \E c \in Commands : LLMText(c)
  \/ \E c \in Commands : LLMFail(c)
  \/ \E c \in Commands : \E plan \in ConfirmPlans : LLMTools(c, plan, ConfirmToolPasses)
  \/ \E id \in 1..confirmIdCounter : \E approved \in BOOLEAN : ConfirmResponse(id, approved)
  \/ \E id \in timers : ConfirmTimeout(id)
  \/ \E c \in Commands : ConfirmWake(c)
  \/ \E c \in Commands : \E i \in DOMAIN ex[c].parsed : \E ok \in BOOLEAN : ToolDone(c, i, ok)

SpecConfirm ==
  Init /\ [][NextConfirm]_vars

\* ---- SpecExec: one command, passes that open tabs ------------------------
ExecPlans ==
  {<<Call("create_tab", UrlX)>>,
   <<Call("create_tab", UrlX), Call("create_tab", UrlWwwX)>>,
   <<Call("close_tabs", EmptyUrl)>>}

NextExec ==
  \/ \E src \in {"external"} : Submit(src, ExecCommands)
  \/ Cancel
  \/ Connect(ExecPorts)
  \/ \E c \in Commands : Complete(c)
  \/ \E c \in Commands : BlockedPatternsDone(c)
  \/ \E c \in Commands : PrerunDone(c)
  \/ \E c \in Commands : ContextDone(c)
  \/ \E c \in Commands : AbortWake(c)
  \/ \E c \in Commands : LLMText(c)
  \/ \E c \in Commands : LLMFail(c)
  \/ \E c \in Commands : LLM429(c)
  \/ \E c \in Commands : LLMSleepDone(c)
  \/ \E c \in Commands : \E plan \in ExecPlans : LLMTools(c, plan, ExecToolPasses)
  \/ \E id \in 1..confirmIdCounter : \E approved \in BOOLEAN : ConfirmResponse(id, approved)
  \/ \E c \in Commands : ConfirmWake(c)
  \/ \E c \in Commands : \E i \in DOMAIN ex[c].parsed : \E ok \in BOOLEAN : ToolDone(c, i, ok)
  \/ \E c \in Commands : \E i \in DOMAIN ex[c].parsed : \E ok \in BOOLEAN :
        \E reported \in ReportedUrls(ex[c].parsed[i].url) : CreateDone(c, i, ok, reported)
  \/ \E c \in Commands : \E i \in DOMAIN ex[c].parsed : \E focused \in BOOLEAN :
        FocusDone(c, i, focused)
  \/ \E c \in Commands : \E i \in DOMAIN ex[c].parsed : SwitchDone(c, i)
  \/ \E c \in Commands : \E j \in DOMAIN ex[c].autos : AutoWaitDone(c, j)
  \/ \E c \in Commands : \E j \in DOMAIN ex[c].autos : AutoInspectDone(c, j)

SpecExec ==
  Init /\ [][NextExec]_vars

\* ---- SpecPolicy: one command, blocked-site patterns ----------------------
PatternLists ==
  {<<>>,
   <<DomainPattern(<<"x", "com">>)>>,
   <<PathPattern(<<"x", "com">>), DomainPattern(<<"y", "com">>)>>}

PolicyPlans ==
  {<<Call("create_tab", UrlX)>>,
   <<Call("create_tab", UrlX), Call("create_tab", UrlWwwX)>>,
   <<Call("create_tab", UrlWwwX), Call("create_tab", UrlY)>>}

NextPolicy ==
  \/ \E src \in {"external"} : Submit(src, PolicyCommands)
  \/ \E c \in Commands : Complete(c)
  \/ \E c \in Commands : \E patterns \in PatternLists : BlockedPatternsRead(c, patterns)
  \/ \E c \in Commands : PrerunDone(c)
  \/ \E c \in Commands : ContextDone(c)
  \/ \E c \in Commands : LLMText(c)
  \/ \E c \in Commands : LLMFail(c)
  \/ \E c \in Commands : \E plan \in PolicyPlans : LLMTools(c, plan, PolicyToolPasses)
  \/ \E c \in Commands : \E i \in DOMAIN ex[c].parsed : \E ok \in BOOLEAN :
        CreateDone(c, i, ok, ex[c].parsed[i].url)
  \/ \E c \in Commands : \E i \in DOMAIN ex[c].parsed : \E focused \in BOOLEAN :
        FocusDone(c, i, focused)
  \/ \E c \in Commands : \E i \in DOMAIN ex[c].parsed : SwitchDone(c, i)
  \/ \E c \in Commands : \E j \in DOMAIN ex[c].autos : AutoWaitDone(c, j)
  \/ \E c \in Commands : \E j \in DOMAIN ex[c].autos : AutoInspectDone(c, j)

SpecPolicy ==
  Init /\ [][NextPolicy]_vars

\* ---- SpecHistory: the history over weeks, with a log left in storage ------
StoredLogs ==
  {[i \in 1..HistoryStored |-> StoredEntry(HistoryStored + 1 - i, 0 - HistoryStepDays)],
   [i \in 1..HistoryStored |->
      StoredEntry(HistoryStored + 1 - i,
                  IF 2 * i <= HistoryStored THEN 0 - THIRTY_DAYS ELSE 0 - HistoryStepDays)]}

NextHistory ==
  \/ \E stored \in StoredLogs : LoadActionLog(stored)
  \/ \E src \in {"external"} : Submit(src, HistoryCommands)
  \/ Connect(HistoryPorts)
  \/ GetHistory
  \/ ClearHistory
  \/ DaysPass(HistoryStepDays, HistoryMaxDay)
  \/ \E c \in Commands : Complete(c)
  \/ \E c \in Commands : BlockedPatternsDone(c)
  \/ \E c \in Commands : PrerunDone(c)
  \/ \E c \in Commands : ContextDone(c)
  \/ \E c \in Commands : LLMText(c)
  \/ \E c \in Commands : LLMFail(c)

SpecHistory ==
  Init /\ [][NextHistory]_vars

\* ---- SpecDupes: a window of tabs and one call of closeDuplicateTabs -------
NextDupes ==
  \/ \E url \in Urls : OpenTab(url, MaxWindowTabs)
  \/ CloseDuplicateTabs
  \/ RemoveDone

SpecDupes ==
  Init /\ [][NextDupes]_vars

\* ---- SpecClose: a window of tabs and calls of closeTabs -------------------
NextClose ==
  \/ \E url \in {UrlX} : OpenTab(url, CloseWindowTabs)
  \/ \E tabIds \in (SUBSET (1..CloseWindowTabs)) \ {{}} : CloseTabsChecked(tabIds, CloseCalls)
  \/ \E k \in DOMAIN win.closers : \E partial \in BOOLEAN : CloseTabsRemoved(k, partial)

SpecClose ==
  Init /\ [][NextClose]_vars

\* ---- SpecLate: two commands, a pass that opens two tabs --------------------
LatePlans ==
  {<<Call("create_tab", UrlX), Call("create_tab", UrlY)>>}

NextLate ==
  \/ \E src \in {"external"} : Submit(src, LateCommands)
  \/ Connect(LatePorts)
  \/ Cancel
  \/ \E c \in Commands : AbortWake(c)
  \/ \E c \in Commands : Complete(c)
  \/ \E c \in Commands : BlockedPatternsDone(c)
  \/ \E c \in Commands : PrerunDone(c)
  \/ \E c \in Commands : ContextDone(c)
  \/ \E c \in Commands : LLMText(c)
  \/ \E c \in Commands : \E plan \in LatePlans : LLMTools(c, plan, LateToolPasses)
  \/ \E c \in Commands : \E i \in DOMAIN ex[c].parsed :
        CreateDone(c, i, TRUE, ex[c].parsed[i].url)
  \/ \E c \in Commands : \E j \in DOMAIN ex[c].autos : AutoWaitDone(c, j)
  \/ \E c \in Commands : \E j \in DOMAIN ex[c].autos : AutoInspectDone(c, j)

SpecLate ==
  Init /\ [][NextLate]_vars

\* ---- SpecSameKey: a pass of three create_tab calls with one dedup key ------
SameKeyPlans ==
  {<<Call("create_tab", UrlX), Call("create_tab", UrlWwwX), Call("create_tab", UrlX)>>}

NextSameKey ==
  \/ \E src \in {"external"} : Submit(src, SameKeyCommands)
  \/ Connect(SameKeyPorts)
  \/ Cancel
  \/ \E c \in Commands : AbortWake(c)
  \/ \E c \in Commands : Complete(c)
  \/ \E c \in Commands : BlockedPatternsDone(c)
  \/ \E c \in Commands : PrerunDone(c)
  \/ \E c \in Commands : ContextDone(c)
  \/ \E c \in Commands : LLMText(c)
  \/ \E c \in Commands : \E plan \in SameKeyPlans : LLMTools(c, plan, SameKeyToolPasses)
  \/ \E c \in Commands : \E i \in DOMAIN ex[c].parsed : \E ok \in BOOLEAN :
        CreateDone(c, i, ok, ex[c].parsed[i].url)
  \/ \E c \in Commands : \E i \in DOMAIN ex[c].parsed : \E focused \in BOOLEAN :
        FocusDone(c, i, focused)
  \/ \E c \in Commands : \E i \in DOMAIN ex[c].parsed : SwitchDone(c, i)
  \/ \E c \in Commands : \E j \in DOMAIN ex[c].autos : AutoWaitDone(c, j)
  \/ \E c \in Commands : \E j \in DOMAIN ex[c].autos : AutoInspectDone(c, j)

SpecSameKey ==
  Init /\ [][NextSameKey]_vars

\* ---- SpecStale: a voice command that opens, closes and reopens tabs -------
StalePlans ==
  {<<Call("create_tab", UrlX), Call("create_tab", UrlY)>>,
   <<Call("close_tabs", EmptyUrl)>>,
   <<Call("create_tab", UrlX)>>}

NextStale ==
  \/ \E src \in {"voice"} : Submit(src, StaleCommands)
  \/ \E c \in Commands : Complete(c)
  \/ \E c \in Commands : BlockedPatternsDone(c)
  \/ \E c \in Commands : PrerunDone(c)
  \/ \E c \in Commands : ContextDone(c)
  \/ \E c \in Commands : LLMText(c)
  \/ \E c \in Commands : \E plan \in StalePlans : LLMTools(c, plan, StaleToolPasses)
  \/ \E c \in Commands : \E i \in DOMAIN ex[c].parsed :
        CreateDone(c, i, TRUE, ex[c].parsed[i].url)
  \/ \E c \in Commands : \E i \in DOMAIN ex[c].parsed : \E id \in 1..tabCounter :
        CloseDone(c, i, id)
  \/ \E c \in Commands : \E i \in DOMAIN ex[c].parsed : \E focused \in BOOLEAN :
        FocusDone(c, i, focused)
  \/ \E c \in Commands : \E i \in DOMAIN ex[c].parsed : SwitchDone(c, i)
  \/ \E c \in Commands : \E j \in DOMAIN ex[c].autos : AutoWaitDone(c, j)
  \/ \E c \in Commands : \E j \in DOMAIN ex[c].autos : AutoInspectDone(c, j)

SpecStale ==
  Init /\ [][NextStale]_vars

\* ---- SpecTranscript: two commands in a row, passes of every kind ----------
TranscriptPatternLists ==
  {<<>>, <<DomainPattern(<<"y", "com">>)>>}

TranscriptPlans ==
  {<<Call("create_tab", UrlX), Call("create_tab", UrlWwwX)>>,
   <<Call("close_tabs", EmptyUrl), Call("create_tab", UrlY)>>}

NextTranscript ==
  \/ \E src \in {"external"} : Submit(src, TranscriptCommands)
  \/ Connect(TranscriptPorts)
  \/ Cancel
  \/ \E c \in Commands : AbortWake(c)
  \/ \E c \in Commands : Complete(c)
  \/ \E c \in Commands : \E patterns \in TranscriptPatternLists :
        BlockedPatternsRead(c, patterns)
  \/ \E c \in Commands : PrerunDone(c)
  \/ \E c \in Commands : ContextDone(c)
  \/ \E c \in Commands : LLMText(c)
  \/ \E c \in Commands : \E plan \in TranscriptPlans :
        LLMTools(c, plan, TranscriptToolPasses)
  \/ \E id \in 1..confirmIdCounter : \E approved \in BOOLEAN : ConfirmResponse(id, approved)
  \/ \E c \in Commands : ConfirmWake(c)
  \/ \E c \in Commands : \E i \in DOMAIN ex[c].parsed : ToolDone(c, i, TRUE)
  \/ \E c \in Commands : \E i \in DOMAIN ex[c].parsed :
        CreateDone(c, i, TRUE, ex[c].parsed[i].url)
  \/ \E c \in Commands : \E i \in DOMAIN ex[c].parsed : \E focused \in BOOLEAN :
        FocusDone(c, i, focused)
  \/ \E c \in Commands : \E i \in DOMAIN ex[c].parsed : SwitchDone(c, i)
  \/ \E c \in Commands : \E j \in DOMAIN ex[c].autos : AutoWaitDone(c, j)
  \/ \E c \in Commands : \E j \in DOMAIN ex[c].autos : AutoInspectDone(c, j)

SpecTranscript ==
  Init /\ [][NextTranscript]_vars

\* ---- SpecSwitch: passes of switch_tab calls -------------------------------
SwitchPlans ==
  {<<SwitchCall(1), SwitchCall(1), SwitchCall(1)>>,
   <<SwitchCall(1), SwitchCall(2)>>}

NextSwitch ==
  \/ \E src \in {"external"} : Submit(src, SwitchCommands)
  \/ Connect(SwitchPorts)
  \/ Cancel
  \/ \E c \in Commands : AbortWake(c)
  \/ \E c \in Commands : Complete(c)
  \/ \E c \in Commands : BlockedPatternsDone(c)
  \/ \E c \in Commands : PrerunDone(c)
  \/ \E c \in Commands : ContextDone(c)
  \/ \E c \in Commands : LLMText(c)
  \/ \E c \in Commands : \E plan \in SwitchPlans : LLMTools(c, plan, SwitchToolPasses)
  \/ \E c \in Commands : \E i \in DOMAIN ex[c].parsed : \E alreadyFocused \in BOOLEAN :
        SwitchFocusDone(c, i, alreadyFocused)
  \/ \E c \in Commands : \E i \in DOMAIN ex[c].parsed : \E ok \in BOOLEAN :
        SwitchExecDone(c, i, ok)

SpecSwitch ==
  Init /\ [][NextSwitch]_vars

\* ---- SpecFollowUp: passes that create tabs --------------------------------
FollowUpPlans ==
  {<<Call("create_tab", UrlX), Call("create_tab", UrlY)>>,
   <<Call("create_tab", UrlX), Call("create_tab", UrlWwwX)>>}

NextFollowUp ==
  \/ \E src \in {"external"} : Submit(src, FollowUpCommands)
  \/ Connect(FollowUpPorts)
  \/ Cancel
  \/ \E c \in Commands : AbortWake(c)
  \/ \E c \in Commands : Complete(c)
  \/ \E c \in Commands : BlockedPatternsDone(c)
  \/ \E c \in Commands : PrerunDone(c)
  \/ \E c \in Commands : ContextDone(c)
  \/ \E c \in Commands : LLMText(c)
  \/ \E c \in Commands : \E plan \in FollowUpPlans : LLMTools(c, plan, FollowUpToolPasses)
  \/ \E c \in Commands : \E i \in DOMAIN ex[c].parsed : \E ok \in BOOLEAN :
        CreateDone(c, i, ok, ex[c].parsed[i].url)
  \/ \E c \in Commands : \E i \in DOMAIN ex[c].parsed : \E focused \in BOOLEAN :
        FocusDone(c, i, focused)
  \/ \E c \in Commands : \E i \in DOMAIN ex[c].parsed : SwitchDone(c, i)
  \/ \E c \in Commands : \E j \in DOMAIN ex[c].autos : AutoWaitDone(c, j)
  \/ \E c \in Commands : \E j \in DOMAIN ex[c].autos : AutoInspectDone(c, j)

SpecFollowUp ==
  Init /\ [][NextFollowUp]_vars

\* ---- SpecContext: up to the first model request ---------------------------
\* what settles without an answer of the capability registry: the storage
\* read of the blocked patterns, the context race (its timer fires after
\* CONTEXT_BUILD_TIMEOUT_MS at the latest), the rejected awaits and the end of
\* executeCommand
ContextSettles ==
  \/ \E c \in Commands : BlockedPatternsDone(c)
  \/ \E c \in Commands : ContextDone(c)
  \/ \E c \in Commands : AbortWake(c)
  \/ \E c \in Commands : Complete(c)

NextContext ==
  \/ \E src \in {"external"} : Submit(src, ContextCommands)
  \/ Connect(ContextPorts)
  \/ Cancel
  \/ ContextSettles
  \/ \E c \in Commands : PrerunDone(c)
  \/ \E c \in Commands : LLMText(c)
  \/ \E c \in Commands : LLMFail(c)

SpecContext ==
  Init /\ [][NextContext]_vars

\* timers fire and ready tasks run; ToolRegistry.execute("list_tabs") and the
\* model may or may not answer
FairSpecContext ==
  SpecContext /\ WF_vars(ContextSettles)

\* ---- SpecQueue: three commands, the queue --------------------------------
QueuePlans ==
  {<<Call("create_tab", UrlX)>>}

\* the steps of a command that is being executed, up to the end of executeCommand
QueueProgress ==
  \/ \E c \in Commands : Complete(c)
  \/ \E c \in Commands : BlockedPatternsDone(c)
  \/ \E c \in Commands : PrerunDone(c)
  \/ \E c \in Commands : ContextDone(c)
  \/ \E c \in Commands : AbortWake(c)
  \/ \E c \in Commands : LLMText(c)
  \/ \E c \in Commands : LLMFail(c)
  \/ \E c \in Commands : \E plan \in QueuePlans : LLMTools(c, plan, QueueToolPasses)
  \/ \E c \in Commands : \E i \in DOMAIN ex[c].parsed : \E ok \in BOOLEAN :
        \E reported \in ReportedUrls(ex[c].parsed[i].url) : CreateDone(c, i, ok, reported)
  \/ \E c \in Commands : \E i \in DOMAIN ex[c].parsed : \E focused \in BOOLEAN :
        FocusDone(c, i, focused)
  \/ \E c \in Commands : \E i \in DOMAIN ex[c].parsed : SwitchDone(c, i)
  \/ \E c \in Commands : \E j \in DOMAIN ex[c].autos : AutoWaitDone(c, j)
  \/ \E c \in Commands : \E j \in DOMAIN ex[c].autos : AutoInspectDone(c, j)

NextQueue ==
  \/ \E src \in {"external"} : Submit(src, QueueCommands)
  \/ Cancel
  \/ Connect(QueuePorts)
  \/ QueueProgress

SpecQueue ==
  Init /\ [][NextQueue]_vars

\* Every awaited operation settles and every task that is ready runs.
FairSpecQueue ==
  SpecQueue /\ WF_vars(QueueProgress)

\* ---- SpecIter: one command, up to the iteration cap ----------------------
IterPlans ==
  {<<Call("reload_tabs", EmptyUrl)>>, <<Call("create_tab", UrlX)>>}

NextIter ==
  \/ \E src \in {"external"} : Submit(src, IterCommands)
  \/ \E c \in Commands : Complete(c)
  \/ \E c \in Commands : BlockedPatternsDone(c)
  \/ \E c \in Commands : PrerunDone(c)
  \/ \E c \in Commands : ContextDone(c)
  \/ \E c \in Commands : LLMText(c)
  \/ \E c \in Commands : LLMFail(c)
  \/ \E c \in Commands : \E plan \in IterPlans : LLMTools(c, plan, IterToolPasses)
  \/ \E c \in Commands : \E i \in DOMAIN ex[c].parsed : ToolDone(c, i, TRUE)
  \/ \E c \in Commands : \E i \in DOMAIN ex[c].parsed :
        CreateDone(c, i, TRUE, ex[c].parsed[i].url)
  \/ \E c \in Commands : \E i \in DOMAIN ex[c].parsed : FocusDone(c, i, FALSE)
  \/ \E c \in Commands : \E i \in DOMAIN ex[c].parsed : SwitchDone(c, i)
  \/ \E c \in Commands : \E j \in DOMAIN ex[c].autos : AutoWaitDone(c, j)
  \/ \E c \in Commands : \E j \in DOMAIN ex[c].autos : AutoInspectDone(c, j)

SpecIter ==
  Init /\ [][NextIter]_vars

\* ---- SpecFault: three commands, host calls of executeCommand may throw ----
NextFault ==
  \/ \E src \in {"external"} : Submit(src, FaultCommands)
  \/ Cancel
  \/ Connect(FaultPorts)
  \/ \E p \in connected : Disconnect(p)
  \/ \E c \in Commands : Complete(c)
  \/ \E c \in Commands : \E fault \in {"try", "catch"} : HostFault(c, fault)
  \/ \E c \in Commands : BlockedPatternsDone(c)
  \/ \E c \in Commands : PrerunDone(c)
  \/ \E c \in Commands : ContextDone(c)
  \/ \E c \in Commands : AbortWake(c)
  \/ \E c \in Commands : LLMText(c)
  \/ \E c \in Commands : LLMFail(c)

SpecFault ==
  Init /\ [][NextFault]_vars

\* ---- the model ring alone ------------------------------------------------
NextRing ==
  \/ RingRequest(RingMaxInWindow)
  \/ Tick(RingStepMs, RingMaxNow)

SpecRing ==
  Init /\ [][NextRing]_vars

\* ---- the client alone: calls of chatCompletion, one after another --------
NextClient ==
  \/ ChatCompletion(ClientRequests)
  \/ \E resp \in Responses : FetchResponds(resp)
  \/ FetchRejects
  \/ TimeoutFires
  \/ SignalAborts
  \/ SleepOver
  \/ Tick(ClientStepMs, ClientMaxNow)

SpecClient ==
  Init /\ [][NextClient]_vars

\* ---- the completion summary alone ----------------------------------------
NextSummary ==
  Summarize

SpecSummary ==
  Init /\ [][NextSummary]_vars

\* ---- claims ---------------------------------------------------------------
InQueue(c) ==
  Cardinality({i \in DOMAIN commandQueue : commandQueue[i].commandId = c})

Resolved(c) ==
  Len(promises[c]) = 1

\* C1: at any moment at most one command is being executed; while one is, the
\* orchestrator is marked as processing that very command, and no other
\* command's execution has begun and not yet ended.
AtMostOneRunning ==
  /\ Cardinality({c \in Commands : Running(c)}) <= 1
  /\ \A c \in Commands : Running(c) => processing /\ currentCommand = c
  /\ processing => currentCommand \in Commands /\ Running(currentCommand)

\* A command that arrived while another was being executed is now the one
\* being executed.
WitnessQueuedCommandRuns ==
  \E c \in Commands : /\ Running(c)
                      /\ ex[c].queuePosition > 0
                      /\ \E d \in Commands : ex[d].pc = "done"

CancelledResultAfterAbort ==
  \A c \in Commands :
    (ex[c].pc = "returned" /\ c \in aborted) => ex[c].result.kind = "cancelled"

\* C5: a cancel fires the signal of the running command only; it leaves the
\* queue and the queued commands as they are; a command begins with a signal
\* that has not fired; and a cancel while nothing runs changes nothing.
CancelOnlyCurrent ==
  [][/\ (aborted' \ aborted) \subseteq {c \in Commands : c = currentCommand /\ Running(c)}
     /\ aborted' # aborted =>
          /\ commandQueue' = commandQueue
          /\ \A c \in Commands : ex[c].pc \in {"none", "queued"} => ex'[c] = ex[c]
     /\ \A c \in Commands :
          (ex[c].pc \in {"none", "queued"} /\ Running(c)') => c \notin aborted'
     /\ (Cancel /\ ~processing) => UNCHANGED vars]_vars

\* The running command was cancelled while another waited in the queue, and
\* the queued one is now being executed with a signal that has not fired.
WitnessQueuedRunsAfterCancel ==
  \E c, d \in Commands : /\ d \in aborted
                         /\ ex[d].pc = "done"
                         /\ promises[d] = <<[cmd |-> d, kind |-> "cancelled"]>>
                         /\ ex[c].queuePosition > 0
                         /\ ex[c].pc = "llm"
                         /\ c \notin aborted

PendingIds ==
  {p.confirmId : p \in pendingConfirmations}

ResolvedIds ==
  {resolveLog[i].confirmId : i \in DOMAIN resolveLog}

\* C6: a pending confirmation belongs to the command that is being executed,
\* whose executor waits for it and whose signal has not fired; an executor
\* that waits for a decision has a pending confirmation with a running timer;
\* a confirmation that is no longer pending has been resolved; so none is
\* pending when no command runs.
NoDanglingConfirmation ==
  /\ \A p \in pendingConfirmations :
       /\ p.commandId = currentCommand
       /\ p.commandId \notin aborted
       /\ ex[p.commandId].pc = "confirm"
       /\ ex[p.commandId].confirmId = p.confirmId
       /\ ex[p.commandId].wake = "none"
  /\ \A c \in Commands :
       (ex[c].pc = "confirm" /\ ex[c].wake = "none") =>
          /\ [confirmId |-> ex[c].confirmId, commandId |-> c] \in pendingConfirmations
          /\ ex[c].confirmId \in timers
  /\ \A id \in 1..confirmIdCounter : id \in PendingIds \/ id \in ResolvedIds
  /\ ~processing => pendingConfirmations = {}

\* A command that waited for a confirmation was cancelled and has ended: the
\* confirmation was resolved as denied and nothing is pending.
WitnessCancelledWhileConfirming ==
  \E c \in Commands :
    /\ ex[c].pc = "done" /\ c \in aborted
    /\ ~processing
    /\ \E i \in DOMAIN resolveLog : ~resolveLog[i].approved
    /\ pendingConfirmations = {}

\* C7: a confirmation that times out counts as denied: the call is never
\* handed to the capability; once the approvals of its pass are through, a
\* tool-result event with the denied result has been emitted for it; and once
\* the pass is over, the transcript holds that result as its tool message.
TimeoutIsDenied ==
  \A c \in Commands :
    \A n \in DOMAIN ex[c].decisions :
      LET d == ex[c].decisions[n] IN
        d.why = "timeout" =>
          /\ d.approval = "denied"
          /\ \A j \in DOMAIN dispatched[c] : dispatched[c][j].callId # d.callId
          /\ (ex[c].iteration > d.iteration \/ ex[c].k = 0) =>
               \E e \in DOMAIN ex[c].events :
                 ex[c].events[e] = Event("tool_result", d.callId, DeniedResult)
          /\ ex[c].iteration > d.iteration =>
               \E m \in DOMAIN ex[c].messages :
                 /\ ex[c].messages[m].role = "tool"
                 /\ ex[c].messages[m].id = d.tcid
                 /\ ex[c].messages[m].result = DeniedResult

\* A confirmation timed out, its pass is over and the next request to the
\* model is under way.
WitnessTimeoutFedBack ==
  \E c \in Commands :
    /\ ex[c].pc = "llm" /\ ex[c].iteration = 1
    /\ \E n \in DOMAIN ex[c].decisions : ex[c].decisions[n].why = "timeout"

\* C8: a confirmation is resolved at most once: no confirmation id is resolved
\* twice, a resolved one is no longer pending and its timer no longer runs,
\* and the decision the executor acts on is the one it was resolved with.
OneOutcomePerConfirmation ==
  /\ \A i, j \in DOMAIN resolveLog :
       resolveLog[i].confirmId = resolveLog[j].confirmId => i = j
  /\ PendingIds \cap ResolvedIds = {}
  /\ timers \subseteq PendingIds
  /\ \A c \in Commands :
       \A n \in DOMAIN ex[c].decisions :
         LET d == ex[c].decisions[n] IN
           d.confirmId # 0 =>
             \E i \in DOMAIN resolveLog :
               /\ resolveLog[i].confirmId = d.confirmId
               /\ resolveLog[i].approved = (d.approval = "approved")

\* The popup approved a confirmation and disconnected afterwards, and the
\* command has gone on with the approval.
WitnessApprovedThenDisconnected ==
  /\ connected = {} /\ portCounter > 0
  /\ \E c \in Commands :
       \E n \in DOMAIN ex[c].decisions :
         /\ ex[c].decisions[n].why = "response"
         /\ ex[c].decisions[n].approval = "approved"

\* C9: without a popup port a destructive call is approved exactly when the
\* command's source is voice; a call that was denied is never handed to the
\* capability.
NoPopupVoiceOnly ==
  \A c \in Commands :
    \A n \in DOMAIN ex[c].decisions :
      LET d == ex[c].decisions[n] IN
        /\ d.why = "noport" =>
             d.approval = (IF ex[c].source = "voice" THEN "approved" ELSE "denied")
        /\ d.approval = "denied" =>
             \A j \in DOMAIN dispatched[c] : dispatched[c][j].callId # d.callId

\* Without a popup port, a destructive call of a command that did not come
\* from voice was denied and its pass is over.
WitnessNoPopupDenied ==
  \E c \in Commands :
    /\ ex[c].source # "voice"
    /\ ex[c].iteration = 1
    /\ \E n \in DOMAIN ex[c].decisions :
         /\ ex[c].decisions[n].why = "noport"
         /\ ex[c].decisions[n].approval = "denied"

\* C10: two create_tab calls of one command with the same dedup key open one
\* tab: no two open tabs have the same key, and the result of a deduplicated
\* call names the open tab with the key of its url.
CreateTabDeduped ==
  /\ \A t, u \in tabs :
       normalizeUrlForDedup(t.url) = normalizeUrlForDedup(u.url) => t = u
  /\ \A c \in Commands :
       \A i \in DOMAIN ex[c].parsed :
         LET call == ex[c].parsed[i] IN
           (call.name = "create_tab" /\ call.st = "done" /\ call.result.deduped) =>
              \E t \in tabs : /\ t.id = call.result.tab
                              /\ normalizeUrlForDedup(t.url) = normalizeUrlForDedup(call.url)

LoggedCallIds(f) ==
  {f.allToolCalls[i].callId : i \in DOMAIN f.allToolCalls}

\* C11: execute sends at most 10 requests to the model; after the 10th pass
\* of tool calls it returns the max-iterations result, and the toolCalls of
\* that result hold every call made in all passes, the automatic follow-up
\* calls included.
IterationCap ==
  \A c \in Commands :
    /\ ex[c].requests <= MAX_ITERATIONS
    /\ ex[c].iteration <= MAX_ITERATIONS
    /\ (Running(c) /\ ex[c].iteration = MAX_ITERATIONS) =>
          /\ ex[c].pc = "returned"
          /\ ex[c].result.kind = "max"
    /\ (ex[c].pc = "returned" /\ ex[c].result.kind = "max") =>
          /\ ex[c].iteration = MAX_ITERATIONS
          /\ ex[c].requests = MAX_ITERATIONS
          /\ ex[c].allToolCalls # <<>>
          /\ \A j \in DOMAIN dispatched[c] : dispatched[c][j].callId \in LoggedCallIds(ex[c])
          /\ \A e \in DOMAIN ex[c].events :
               ex[c].events[e].type = "tool_call" =>
                 ex[c].events[e].callId \in LoggedCallIds(ex[c])
          /\ ex[c].events[Len(ex[c].events)].type = "error"

\* Ten passes of tool calls, one of them with an automatic follow-up, have
\* ended in the max-iterations result.
WitnessTenPasses ==
  \E c \in Commands :
    /\ ex[c].pc = "returned" /\ ex[c].result.kind = "max"
    /\ \E i \in DOMAIN ex[c].allToolCalls : ex[c].allToolCalls[i].name = "inspect_page"

EntriesOf(c) ==
  {i \in DOMAIN actionLog : actionLog[i].id = c}

FailureIsolation ==
  [][/\ \A c \in Commands :
          (ex[c].pc = "returned" /\ ex'[c].pc = "done") =>
             IF commandQueue = <<>>
               THEN ~processing' /\ currentCommand' = 0 /\ currentAbortController' = 0
             ELSE /\ processing'
                  /\ currentCommand' = Head(commandQueue).commandId
                  /\ currentAbortController' = Head(commandQueue).commandId
                  /\ ex'[Head(commandQueue).commandId].pc = "blocked"
                  /\ Head(commandQueue).commandId \notin aborted'
                  /\ commandQueue' = Tail(commandQueue)
     /\ processing' => /\ currentCommand' \in Commands
                       /\ ex'[currentCommand'].pc \notin {"none", "queued", "done"}]_vars

\* A command ended with an exception in the catch block, leaving no history
\* entry, and the command queued behind it has been executed.
WitnessRunsAfterFault ==
  \E c, d \in Commands :
    /\ ex[c].pc = "done" /\ EntriesOf(c) = {}
    /\ ex[d].pc = "done" /\ ex[d].queuePosition > 0 /\ d > c
    /\ Resolved(d)

\* C14: a capability call that fails does not end the command: its error is
\* the call's result, emitted as its tool-result event and, when the pass is
\* over, held by the transcript as its tool message; execute returns an error
\* result only from a request to the model, never from within a pass.
ToolErrorsCaptured ==
  \A c \in Commands :
    /\ \A i \in DOMAIN ex[c].parsed :
         LET call == ex[c].parsed[i] IN
           (Running(c) /\ call.st = "done" /\ call.result.error) =>
              \E e \in DOMAIN ex[c].events :
                ex[c].events[e] = Event("tool_result", call.callId, call.result)
    /\ \A n \in DOMAIN ex[c].allToolCalls :
         LET call == ex[c].allToolCalls[n] IN
           (call.result.error /\ call.tcid.kind = "call") =>
              \E m \in DOMAIN ex[c].messages :
                /\ ex[c].messages[m].role = "tool"
                /\ ex[c].messages[m].id = call.tcid
                /\ ex[c].messages[m].result = call.result
    /\ (ex[c].pc = "returned" /\ ex[c].result.kind = "error") => ex[c].parsed = <<>>
    /\ \A i \in DOMAIN ex[c].parsed : ex[c].parsed[i].st # "failed"

\* A capability call failed without a denial, its error went to the
\* transcript, and the next request to the model is under way.
WitnessToolErrorFedBack ==
  \E c \in Commands :
    /\ ex[c].pc = "llm" /\ c \notin aborted
    /\ \E n \in DOMAIN ex[c].allToolCalls :
         /\ ex[c].allToolCalls[n].result.error
         /\ ~ex[c].allToolCalls[n].result.denied
         /\ ex[c].allToolCalls[n].tcid.kind = "call"

\* C15: an error of the request to the model, when the command is not
\* cancelled, ends execute with the error result: the request in flight is
\* not made again within the same iteration, the result keeps the tool calls
\* accumulated so far, and from then on the command makes no request to the model and
\* hands no call to a capability; the next step ends the command with that
\* result.
ModelErrorEndsCommand ==
  [][\A c \in Commands :
       /\ (ex[c].pc = "llm" /\ ex'[c].pc = "llm" /\ ex'[c].iteration = ex[c].iteration) =>
            ex'[c].requests = ex[c].requests
       /\ (ex[c].result.kind # "error" /\ ex'[c].result.kind = "error") =>
            /\ ex[c].pc = "llm" /\ ex[c].llmPhase = "fetch" /\ c \notin aborted
            /\ ex'[c].pc = "returned"
            /\ ex'[c].allToolCalls = ex[c].allToolCalls
            /\ ex'[c].requests = ex[c].requests
            /\ ex'[c].parsed = <<>> /\ ex'[c].autos = <<>>
            /\ dispatched' = dispatched
            /\ ex'[c].events = Append(ex[c].events, Event("error", 0, NoRes))
       /\ (ex[c].pc = "returned" /\ ex[c].result.kind = "error") =>
            /\ ex'[c].pc = "done"
            /\ promises'[c] = <<ex[c].result>>
       /\ (ex[c].pc = "done" /\ ex[c].result.kind = "error") =>
            /\ ex'[c] = ex[c]
            /\ dispatched'[c] = dispatched[c]]_vars

\* After a pass of tool calls the second request to the model failed, and
\* execute of the command that was not cancelled returns the error result.
WitnessModelErrorAfterPass ==
  \E c \in Commands :
    /\ ex[c].pc = "returned" /\ c \notin aborted
    /\ ex[c].result = [cmd |-> c, kind |-> "error"]
    /\ ex[c].requests = 2 /\ ex[c].toolPasses = 1
    /\ \E n \in DOMAIN ex[c].allToolCalls : ex[c].allToolCalls[n].tcid.kind = "call"

\* C16: with RPM_LIMIT calls per RPM_WINDOW_MS and the models of the ring, a
\* request that finds fewer than Len(MODEL_RING) * RPM_LIMIT requests in the
\* trailing window is given, at once, a model that had fewer than RPM_LIMIT
\* calls in that window; so is every request that finds some model with
\* budget, whatever happened before.
RingCapacity ==
  lastPick.model # "none" =>
    /\ lastPick.window < Len(MODEL_RING) * RPM_LIMIT => lastPick.free
    /\ lastPick.free => lastPick.had < RPM_LIMIT

\* The 27th request of one window, some of them made later than others,
\* was given the last model of the ring, which had two calls.
WitnessTwentySevenServed ==
  /\ lastPick.window = Len(MODEL_RING) * RPM_LIMIT - 1
  /\ lastPick.had = RPM_LIMIT - 1
  /\ lastPick.model = MODEL_RING[Len(MODEL_RING)]
  /\ requestTimes[1] < now

\* C17: in the rotating mode chatCompletion makes another attempt only after
\* a 429, when fewer than MAX_429_RETRIES retries have been made, and only
\* once the delay the body names plus 200 ms, or 3000 ms, has passed; a 429
\* at the cap, any other status that is not OK, and a rejected fetch
\* (network error, timeout, abort) are thrown to the caller in the step in
\* which the fetch settles.  (The one retry of tryModel with the other
\* parameter shape is not an attempt of this loop.)
RetryOnly429 ==
  [][/\ req'.attempt <= MAX_429_RETRIES
     /\ (req'.n = req.n /\ req'.attempt # req.attempt) =>
          /\ req'.attempt = req.attempt + 1
          /\ req.pc = "sleep" /\ req.last.status = 429 /\ req.provider = "openai"
          /\ now >= req.sleepUntil
     /\ (req.pc # "sleep" /\ req'.pc = "sleep") =>
          /\ req'.last.status = 429 /\ req.provider = "openai"
          /\ req.attempt < MAX_429_RETRIES
          /\ req'.sleepUntil = now + (IF req'.last.body = "other" THEN 3000
                                       ELSE req'.last.ms + 200)
     /\ (req'.n = req.n /\ req'.settles = req.settles + 1) =>
          /\ req'.last.status = 0 =>
               req'.pc = "settled" /\ req'.err \in {"network", "timeout", "AbortError"}
          /\ (req'.last.status \notin {0, 200, 429} /\ req'.pc # "refetch") =>
               req'.pc = "settled" /\ req'.err = "api"
          /\ req'.pc = "refetch" => req'.last.status = 400 /\ req'.attempt = req.attempt
          /\ (req'.last.status = 429 /\ req.provider = "openai"
                /\ req.attempt < MAX_429_RETRIES) => req'.pc = "sleep"
          /\ (req'.last.status = 429
                /\ (req.provider = "ollama" \/ req.attempt = MAX_429_RETRIES)) =>
               req'.pc = "settled" /\ req'.err = "api"]_vars

\* Four attempts of one call were answered with 429, and the fourth answer
\* was thrown to the caller.
WitnessFourthAttemptThrown ==
  /\ req.pc = "settled" /\ req.provider = "openai"
  /\ req.attempt = MAX_429_RETRIES
  /\ req.last.status = 429
  /\ req.err = "api" /\ req.result = "error"

\* A fetch of the call under way settles in this step.
FetchSettles ==
  req'.n = req.n /\ req'.settles = req.settles + 1

\* With no cached shape, a 400 that names an unsupported parameter is
\* followed by one fetch with the other shape, and only that is; the answer
\* to that fetch is not retried.
ShapeRetriedOnce ==
  /\ (FetchSettles /\ req.pc = "fetch" /\ req.cached = "none"
        /\ req'.last.status = 400 /\ req'.last.body = "unsupported_parameter") =>
       req'.pc = "refetch" /\ req'.sent = Other(req.sent) /\ req'.shapeRetries = 1
  /\ (req.pc # "refetch" /\ req'.pc = "refetch") =>
       /\ req.pc = "fetch" /\ req.cached = "none"
       /\ req'.last.status = 400 /\ req'.last.body = "unsupported_parameter"
  /\ (FetchSettles /\ req.pc = "refetch") => req'.pc \in {"sleep", "settled"}

\* The shape of the first fetch answered with success is the model's entry.
WinningShapeCached ==
  (FetchSettles /\ req.cached = "none" /\ req'.last.status = 200) =>
     tokenParamCache'[req.model] = req.sent

\* A call for a model that has an entry sends the shape of the entry and
\* makes no second fetch with the other one.
CachedShapeSent ==
  /\ (req'.fetches # req.fetches /\ req'.pc = "fetch") =>
       /\ req'.cached = tokenParamCache'[req'.model]
       /\ req'.cached # "none" => req'.sent = req'.cached
  /\ req'.pc = "refetch" => req'.cached = "none"

\* An entry of the cache does not change.
CachedShapeStable ==
  \A m \in Models :
    tokenParamCache[m] # "none" => tokenParamCache'[m] = tokenParamCache[m]

\* C18: for a model with no cached shape a 400 that names an unsupported
\* parameter causes exactly one retry with the other shape; the shape of
\* the first successful response is cached for the model; later calls for
\* the model send the cached shape only and never retry with the other; and
\* a cached shape never changes once set.
ShapeNegotiation ==
  [][ShapeRetriedOnce /\ WinningShapeCached /\ CachedShapeSent /\ CachedShapeStable]_vars

\* The negotiation without the permanence of the entries.
ShapeNegotiationButStable ==
  [][ShapeRetriedOnce /\ WinningShapeCached /\ CachedShapeSent]_vars

HasFreeText(call) ==
  ~call.response.null /\ Trim(call.response.s) # <<>>

\* The positions of the tool calls that have a one-line description.
Describable(toolCalls) ==
  {i \in DOMAIN toolCalls : summarizeToolForNotification(toolCalls[i]) # <<>>}

\* The lines of the two most recent describable tool calls, oldest first.
LastTwoLines(toolCalls, lines) ==
  LET d == Describable(toolCalls)
      last == {i \in d : Cardinality({j \in d : j > i}) < 2}
  IN /\ Len(lines) = Cardinality(last)
     /\ \A n \in DOMAIN lines :
          \E i \in last : /\ Cardinality({j \in last : j <= i}) = n
                          /\ <<lines[n]>> = summarizeToolForNotification(toolCalls[i])

\* text is str, or when str is longer than 180 characters its beginning
\* followed by three dots, 180 characters at most.
Capped(text, str) ==
  IF Len(str) <= 180 THEN text = str
  ELSE /\ Len(text) <= 180 /\ Len(text) > 3
       /\ SubSeq(text, Len(text) - 2, Len(text)) = <<".", ".", ".">>
       /\ SubSeq(text, 1, Len(text) - 3) = SubSeq(str, 1, Len(text) - 3)

\* fs is str up to its first sentence end (a terminator, not in the first
\* place, followed by white space or the end), or all of str if it has none.
IsFirstSentence(fs, str) ==
  /\ fs = SubSeq(str, 1, Len(fs))
  /\ \/ Len(fs) = Len(str)
     \/ fs[Len(fs)] \in {".", "!", "?"} /\ Len(fs) >= 2 /\ IsSpace(str[Len(fs) + 1])
  /\ \A k \in 2..(Len(fs) - 1) : ~(str[k] \in {".", "!", "?"} /\ IsSpace(str[k + 1]))

SummaryOfResponse(call, out) ==
  /\ out.kind = "response"
  /\ \E n \in 1..Len(Trim(call.response.s)) :
       LET fs == SubSeq(Trim(call.response.s), 1, n) IN
         IsFirstSentence(fs, Trim(call.response.s)) /\ Capped(out.text, fs)

SummaryOfTools(call, out) ==
  IF Describable(call.toolCalls) # {}
    THEN out.kind = "highlights" /\ LastTwoLines(call.toolCalls, out.lines)
  ELSE LET failed == Cardinality({i \in DOMAIN call.toolCalls :
                                    call.toolCalls[i].result.error})
       IN /\ out.kind \in {"steps", "failed"}
          /\ out.failed = failed
          /\ out.completed = Len(call.toolCalls) - failed

BlockedCreateRefused ==
  \A c \in Commands :
    /\ \A e \in DOMAIN dispatched[c] :
          dispatched[c][e].name = "create_tab"
            => ~isUrlBlocked(dispatched[c][e].url, ex[c].blockedPatterns)
    /\ Len(ex[c].autos) <=
          Cardinality({i \in DOMAIN ex[c].parsed :
                         /\ ex[c].parsed[i].name = "create_tab"
                         /\ ~isUrlBlocked(ex[c].parsed[i].url, ex[c].blockedPatterns)})
    /\ \A i \in DOMAIN ex[c].parsed :
          LET call == ex[c].parsed[i]
          IN (/\ call.name = "create_tab"
              /\ call.st # "new"
              /\ isUrlBlocked(call.url, ex[c].blockedPatterns))
             => /\ call.st = "done"
                /\ call.result = BlockedResult(call.url)
                /\ call.result.blocked /\ call.result.error /\ ~call.result.denied
                /\ call.result \notin {ErrorResult, DeniedResult}
                /\ call.result.tab = 0 /\ ~call.result.deduped
                /\ \A e \in DOMAIN dispatched[c] : dispatched[c][e].callId # call.callId
                /\ \A key \in DOMAIN ex[c].inFlightCreateByUrl :
                      ex[c].inFlightCreateByUrl[key] # i
                /\ \A j \in DOMAIN ex[c].autos :
                      call.callId \notin {ex[c].autos[j].waitCallId,
                                          ex[c].autos[j].inspectCallId}
                /\ Running(c) =>
                      Cardinality({e \in DOMAIN ex[c].events :
                                     /\ ex[c].events[e].type = "tool_result"
                                     /\ ex[c].events[e].callId = call.callId}) = 1

\* a pass in which x.com is refused by the pattern "x.com/*" while its sibling
\* www.x.com, which has the same dedup key, opened a tab
WitnessBlockedBesideCreated ==
  \E c \in Commands :
    /\ Len(ex[c].parsed) = 2
    /\ ex[c].parsed[1].url = UrlX
    /\ ex[c].parsed[1].result.blocked
    /\ ex[c].parsed[2].url = UrlWwwX
    /\ ex[c].parsed[2].result.tab # 0
    /\ ~ex[c].parsed[2].result.deduped
    /\ Len(ex[c].autos) = 1

\* executeCommand ends for command c in this step
Completes(c) ==
  ex[c].pc = "returned" /\ ex'[c].pc = "done"

\* what a step may do to the history, whatever observers may do
HistoryStep ==
  /\ Len(actionLog') <= MAX_LOG_ENTRIES
  /\ \A c \in Commands :
        Completes(c) =>
          LET all == actionLog \o Outcome(c, "none").entry
              young == Cardinality({i \in DOMAIN all : Younger(all[i], today, now)})
          IN /\ IsSuffix(actionLog', all)
             /\ \A i \in DOMAIN actionLog' : Younger(actionLog'[i], today, now)
             /\ Len(actionLog') = IF young > MAX_LOG_ENTRIES THEN MAX_LOG_ENTRIES ELSE young
  /\ GetHistory => actionLog' = actionLog

KeepsFirstOfEachUrl ==
  win.pc = "done" =>
    LET q == win.queried
        open == {win.tabs[i].id : i \in DOMAIN win.tabs}
    IN /\ \A j \in DOMAIN q :
            q[j].id \in open <=> ~\E k \in 1..(j - 1) : q[k].url = q[j].url
       /\ win.closedCount = Len(q) - Cardinality({q[j].url : j \in DOMAIN q})
       /\ win.message <=> win.closedCount = 0
       /\ \A id \in (Len(q) + 1)..win.opened : id \in open

\* three tabs share one URL and a fourth is unique: two remain, two were closed
WitnessThreeOfAKind ==
  /\ win.pc = "done"
  /\ Len(win.queried) = 4
  /\ Cardinality({j \in DOMAIN win.queried : win.queried[j].url = UrlX}) = 3
  /\ Cardinality({j \in DOMAIN win.queried : win.queried[j].url = UrlY}) = 1
  /\ Len(win.tabs) = 2
  /\ win.closedCount = 2

\* the timestamps of a call log that lie in the window that ends at time t
InWindow(log, t) ==
  {log[k] : k \in {n \in DOMAIN log : t - log[n] < RPM_WINDOW_MS}}

\* C24: a call of nextModel picks the first model of the ring that has fewer
\* than RPM_LIMIT timestamps in the trailing window; only when every model
\* has RPM_LIMIT or more does it pick the model whose oldest timestamp in the
\* window is the earliest, the first of them in ring order.  In the same step
\* the call is recorded in the log of the model picked, and in no other log.
PicksByPriority ==
  [][modelCallLog' # modelCallLog =>
       LET count(i) == Cardinality({n \in DOMAIN modelCallLog[i] :
                                      now - modelCallLog[i][n] < RPM_WINDOW_MS})
           free == {i \in Ring : count(i) < RPM_LIMIT}
           oldest(i) == Least(InWindow(modelCallLog[i], now))
           chosen == CHOOSE i \in Ring : MODEL_RING[i] = lastPick'.model
       IN /\ lastPick'.model \in {MODEL_RING[i] : i \in Ring}
          /\ free # {} => chosen \in free /\ \A j \in free : chosen <= j
          /\ free = {} =>
                /\ \A j \in Ring : oldest(chosen) <= oldest(j)
                /\ \A j \in 1..(chosen - 1) : oldest(chosen) < oldest(j)
          /\ Len(modelCallLog'[chosen]) = count(chosen) + 1
          /\ modelCallLog'[chosen][count(chosen) + 1] = now
          /\ \A j \in Ring \ {chosen} :
                InWindow(modelCallLog'[j], now) = InWindow(modelCallLog[j], now)]_vars

\* every model of the ring is at its limit and the third one, whose oldest
\* call is earlier than those of the first two, has taken a fourth call
WitnessOverageOnThird ==
  /\ lastPick.model = MODEL_RING[3]
  /\ lastPick.had = RPM_LIMIT
  /\ Len(modelCallLog[3]) = RPM_LIMIT + 1
  /\ modelCallLog[1][1] > modelCallLog[3][1]

Started(call) ==
  call.st # "new"

WasDispatched(c, callId) ==
  \E e \in DOMAIN dispatched[c] : dispatched[c][e].callId = callId

\* C25: in a pass, once any call of the pass has begun to execute, every
\* destructive call of the pass has its decision; when a confirmation is
\* requested or decided, every call of the pass has been announced by a
\* tool-requested event; a destructive call reaches the capability registry
\* exactly if its own decision was an approval, and a denied call gets the
\* denied result while every other call of the pass is dispatched.
ConfirmBeforeExecute ==
  \A c \in {d \in Commands : Running(d)} :
    LET f == ex[c]
        destructive == {i \in DOMAIN f.parsed : f.parsed[i].name \in DESTRUCTIVE_TOOLS}
    IN /\ (\E i \in DOMAIN f.parsed : Started(f.parsed[i]) \/ WasDispatched(c, f.parsed[i].callId))
            => /\ \A i \in destructive : f.parsed[i].approval \in {"approved", "denied"}
               /\ \A i \in DOMAIN f.parsed : Started(f.parsed[i])
       /\ (Running(c) /\ (f.pc = "confirm" \/ \E i \in destructive : f.parsed[i].approval # "none"))
            => \A i \in DOMAIN f.parsed :
                 \E e \in DOMAIN f.events : /\ f.events[e].type = "tool_call"
                                             /\ f.events[e].callId = f.parsed[i].callId
       /\ \A p \in pendingConfirmations :
            p.commandId = c =>
              /\ f.pc = "confirm"
              /\ \A i \in DOMAIN f.parsed : ~Started(f.parsed[i])
       /\ \A i \in destructive :
            /\ WasDispatched(c, f.parsed[i].callId) => f.parsed[i].approval = "approved"
            /\ (Started(f.parsed[i]) /\ f.parsed[i].approval = "approved")
                 => WasDispatched(c, f.parsed[i].callId)
            /\ (Started(f.parsed[i]) /\ f.parsed[i].approval = "denied")
                 => f.parsed[i].st = "done" /\ f.parsed[i].result = DeniedResult
       /\ \A i \in DOMAIN f.parsed \ destructive :
            Started(f.parsed[i]) => WasDispatched(c, f.parsed[i].callId)

\* close_tabs was denied and close_duplicate_tabs, approved after it, was
\* dispatched in the same pass
WitnessDeniedBesideApproved ==
  \E c \in Commands :
    /\ Len(ex[c].parsed) = 2
    /\ ex[c].parsed[1].approval = "denied"
    /\ ex[c].parsed[1].result = DeniedResult
    /\ ex[c].parsed[2].approval = "approved"
    /\ ex[c].parsed[2].why = "response"
    /\ WasDispatched(c, ex[c].parsed[2].callId)
    /\ ~WasDispatched(c, ex[c].parsed[1].callId)

\* the assistant message a tool message answers: the nearest one before it
NearestAssistant(msgs, k) ==
  LET before == {j \in 1..(k - 1) : msgs[j].role = "assistant"}
  IN IF before = {} THEN 0 ELSE CHOOSE j \in before : \A i \in before : i <= j

\* the messages between message j and the next message that is not a tool message
AnswersOf(msgs, j) ==
  {k \in (j + 1)..Len(msgs) : \A i \in (j + 1)..k : msgs[i].role = "tool"}

WellFormed(msgs) ==
  /\ \A k \in DOMAIN msgs :
        msgs[k].role = "tool" =>
          LET a == NearestAssistant(msgs, k)
          IN /\ a # 0
             /\ \E n \in DOMAIN msgs[a].calls : msgs[a].calls[n] = msgs[k].id
  /\ \A j \in DOMAIN msgs :
        \A n \in DOMAIN msgs[j].calls :
          /\ Cardinality({k \in DOMAIN msgs : msgs[k].role = "tool"
                                              /\ msgs[k].id = msgs[j].calls[n]}) = 1
          /\ \E k \in AnswersOf(msgs, j) : msgs[k].id = msgs[j].calls[n]
          /\ \A m \in DOMAIN msgs[j].calls : msgs[j].calls[m] = msgs[j].calls[n] => m = n

\* C26: whenever a model request is under way, the transcript it was sent is
\* well formed: every tool message carries an id that the nearest assistant
\* message before it requested, and every id an assistant message requested
\* (calls of the model, the injected list_tabs, replayed history, follow-ups)
\* has exactly one tool message, among the tool messages that follow that
\* assistant message directly.
TranscriptWellFormed ==
  \A c \in Commands :
    (ex[c].pc = "llm" /\ ex[c].llmPhase = "fetch") => WellFormed(ex[c].messages)

\* the second request of a command that replays a first command with tool
\* calls: its pass had a deduplicated create_tab whose sibling completed
\* first, and a follow-up
WitnessSecondRequestAfterReplay ==
  \E c \in Commands :
    /\ ex[c].pc = "llm" /\ ex[c].requests = 2
    /\ \E k \in DOMAIN ex[c].messages : ex[c].messages[k].id.kind = "hist"
    /\ \E k \in DOMAIN ex[c].messages : ex[c].messages[k].id.kind = "auto_inspect"
    /\ \E k \in DOMAIN ex[c].messages :
          ex[c].messages[k].role = "tool" /\ ex[c].messages[k].result.deduped

ResultEvents(f, callId) ==
  {e \in DOMAIN f.events : f.events[e].type = "tool_result" /\ f.events[e].callId = callId}

\* the events of a running command and the records the orchestrator keeps of them
EventsAndRecords(c) ==
  LET f == ex[c]
  IN /\ Running(c) =>
          /\ \A e \in DOMAIN f.events :
                f.events[e].type = "tool_result" =>
                  /\ \E e0 \in 1..(e - 1) : /\ f.events[e0].type = "tool_call"
                                             /\ f.events[e0].callId = f.events[e].callId
                  /\ ResultEvents(f, f.events[e].callId) = {e}
          /\ \A i \in DOMAIN f.toolCalls :
                LET r == f.toolCalls[i]
                IN /\ r.answered <=> ResultEvents(f, r.callId) # {}
                   /\ \A e \in ResultEvents(f, r.callId) : r.result = f.events[e].result
          /\ Len(f.toolCalls) =
                Cardinality({e \in DOMAIN f.events : f.events[e].type = "tool_call"})
     /\ \A d \in Commands : \A i \in DOMAIN f.toolCalls : \A j \in DOMAIN ex[d].toolCalls :
          f.toolCalls[i].callId = ex[d].toolCalls[j].callId => (c = d /\ i = j)

\* C27: a tool-result event follows a tool-requested event with its call id
\* and is the only result event with that id; no call id occurs twice, in one
\* command or in two; the record of a call holds the result of the event with
\* its call id, whatever the order of completion; and a record that has its
\* result is never changed again.
ResultsByCallId ==
  [][\A c \in Commands :
       /\ EventsAndRecords(c)'
       /\ \A i \in DOMAIN ex[c].toolCalls :
            ex[c].toolCalls[i].answered =>
              /\ i \in DOMAIN ex'[c].toolCalls
              /\ ex'[c].toolCalls[i] = ex[c].toolCalls[i]]_vars

\* the second call of a pass completed before the first: each record has the
\* result of its own call
WitnessSecondAnsweredFirst ==
  \E c \in Commands :
    /\ Running(c)
    /\ Len(ex[c].parsed) = 2
    /\ ex[c].parsed[1].st = "exec"
    /\ ex[c].parsed[2].st = "done"
    /\ ex[c].parsed[2].result.tab # 0
    /\ \E i \in DOMAIN ex[c].toolCalls :
          /\ ex[c].toolCalls[i].callId = ex[c].parsed[2].callId
          /\ ex[c].toolCalls[i].answered
          /\ ex[c].toolCalls[i].result = ex[c].parsed[2].result
    /\ \E i \in DOMAIN ex[c].toolCalls :
          /\ ex[c].toolCalls[i].callId = ex[c].parsed[1].callId
          /\ ~ex[c].toolCalls[i].answered

\* the calls that command c hands to the capability registry in this step
NewDispatches(c) ==
  {dispatched'[c][n] : n \in (Len(dispatched[c]) + 1)..Len(dispatched'[c])}

\* C28: once the signal of a command has fired, no step hands a new call of
\* that command to the capability registry (a switch_tab of a deduplicated
\* create_tab and the follow-up calls included) and no step starts a new
\* model request for it.
NoProgressAfterCancel ==
  [][\A c \in aborted :
       /\ NewDispatches(c) = {}
       /\ ex'[c].requests <= ex[c].requests]_vars

\* What does hold after the signal has fired: no model request is started,
\* and the only call that is still dispatched is the switch_tab of a
\* create_tab that found its tab in the dedup index, after the focus test.
NoProgressAfterCancelButSwitch ==
  [][\A c \in aborted :
       /\ \A e \in NewDispatches(c) :
            /\ e.name = "switch_tab"
            /\ \E i \in DOMAIN ex[c].parsed :
                 /\ ex[c].parsed[i].callId = e.callId
                 /\ ex[c].parsed[i].name = "create_tab"
                 /\ ex[c].parsed[i].st = "focus"
       /\ ex'[c].requests <= ex[c].requests]_vars

ResultEventsOf(c) ==
  {n \in DOMAIN ex[c].events : ex[c].events[n].type = "tool_result"}

SwitchesOf(c) ==
  {n \in DOMAIN dispatched[c] : dispatched[c][n].name = "switch_tab"}

Creators(f, k) ==
  LET Test(t) == /\ t.name = "create_tab" /\ t.tcid.kind = "call" /\ t.tcid.iteration = k
                 /\ t.result.tab # 0 /\ ~t.result.deduped
  IN SelectSeq(f.allToolCalls, Test)

\* the follow-up calls of pass k among the recorded tool calls
FollowUpsOf(f, k) ==
  LET Test(t) == t.tcid.kind \in {"auto_wait", "auto_inspect"} /\ t.tcid.iteration = k
  IN SelectSeq(f.allToolCalls, Test)

EventAt(f, type, callId) ==
  {n \in DOMAIN f.events : f.events[n].type = type /\ f.events[n].callId = callId}

DispatchesOf(c, callId) ==
  {n \in DOMAIN dispatched[c] : dispatched[c][n].callId = callId}

Assembling(c) ==
  ex[c].pc \in {"blocked", "prerun", "context"}

\* C31: a command that is assembling its context (reading the blocked
\* patterns, enumerating the tabs, building the context) eventually sends its
\* first model request or returns, whether or not the capability registry
\* ever answers.
ContextNeverBlocks ==
  \A c \in Commands : Assembling(c) ~> ~Assembling(c)

\* What does hold: the context build, which races against its timer and
\* rejects on the signal, always ends.
ContextBuildNeverBlocks ==
  \A c \in Commands : (ex[c].pc = "context") ~> (ex[c].pc # "context")

OllamaFixedModel ==
  /\ (req'.provider = "ollama" /\ req'.n # req.n) => req'.model \in OllamaModels
  /\ (req.provider = "ollama" /\ req'.n = req.n) =>
       req'.provider = "ollama" /\ req'.model = req.model /\ req'.attempt = req.attempt

OllamaNoRateLog ==
  (req'.provider = "ollama" /\ req' # req) =>
    /\ modelCallLog' = modelCallLog
    /\ lastPick' = lastPick
    /\ requestTimes' = requestTimes

OllamaTimeout ==
  (req'.provider = "ollama" /\ req'.pc \in {"fetch", "refetch"}) =>
    \/ req'.timer = "set" /\ req'.startedAt <= now'
    \/ req'.timedOut /\ req'.controller

\* the first fetch of a request is answered with a 400 that names an
\* unsupported parameter
Unsupported400 ==
  /\ req.pc = "fetch"
  /\ req'.settles = req.settles + 1
  /\ req'.last.status = 400
  /\ req'.last.body = "unsupported_parameter"

\* the first call of chatCompletion, when no shape has been learnt for any
\* model: the 400 is answered by one retry with the other shape
Negotiates(provider) ==
  (req.n = 1 /\ req.provider = provider /\ Unsupported400) =>
    /\ req'.pc = "refetch"
    /\ req'.sent = Other(req.sent)
    /\ req'.shapeRetries = 1

\* C32: a request in Ollama mode uses the one configured model, leaves the
\* rate-window logs of the ring as they are, runs every fetch under the
\* request timeout, and negotiates the parameter shape as the rotating mode
\* does: a 400 that names an unsupported parameter is retried once with the
\* other shape.
OllamaLikeRotating ==
  [][/\ OllamaFixedModel /\ OllamaNoRateLog /\ OllamaTimeout
     /\ Negotiates("openai") /\ Negotiates("ollama")]_vars

\* What does hold: the Ollama mode bypasses the ring and keeps the timeout;
\* the negotiation happens in the rotating mode.
OllamaBypassesRotation ==
  [][OllamaFixedModel /\ OllamaNoRateLog /\ OllamaTimeout /\ Negotiates("openai")]_vars

\* C33: a window that has had tabs keeps at least one, whatever calls of
\* closeTabs run against it and however they overlap; a call that names
\* every tab of the window is refused and closes nothing.
CloseTabsLeavesOne ==
  [][/\ win.tabs # <<>> => win'.tabs # <<>>
     /\ \A k \in DOMAIN win'.closers :
          win'.closers[k].pc = "refused" =>
            /\ win'.closers[k].closedCount = 0
            /\ k \notin DOMAIN win.closers => win'.tabs = win.tabs
            /\ k \in DOMAIN win.closers => win'.closers[k] = win.closers[k]]_vars

\* What does hold: a call is refused exactly if it names every tab that the
\* window holds when it asks, a refused call closes nothing, and a call that
\* runs while no other call is between its test and its removal leaves a tab.
CloseTabsLeavesOneAlone ==
  [][/\ \A k \in DOMAIN win'.closers :
          /\ win'.closers[k].pc = "refused" <=>
               closingAll(win'.closers[k].seen, win'.closers[k].tabIds)
          /\ win'.closers[k].pc = "refused" =>
               /\ win'.closers[k].closedCount = 0
               /\ k \notin DOMAIN win.closers => win'.tabs = win.tabs
               /\ k \in DOMAIN win.closers => win'.closers[k] = win.closers[k]
     /\ \A k \in DOMAIN win.closers :
          (/\ win.closers[k].pc = "remove" /\ win'.closers[k].pc # "remove"
           /\ OpenIds(win) = win.closers[k].seen) => win'.tabs # <<>>]_vars

\* C34: in every state in which an event can be handled, processing is set
\* exactly if there is a current command and exactly if there is a current
\* abort controller, the controller is the one made for the current command,
\* the current command is one whose executeCommand has not ended, and the
\* queue holds commands only while a command is running.
OrchestratorConsistent ==
  /\ processing <=> currentCommand # 0
  /\ processing <=> currentAbortController # 0
  /\ currentAbortController = currentCommand
  /\ currentCommand # 0 => Running(currentCommand)
  /\ \A c \in Commands : Running(c) => c = currentCommand
  /\ Len(commandQueue) > 0 => processing
  /\ \A i \in DOMAIN commandQueue : ex[commandQueue[i].commandId].pc = "queued"

\* the second command runs with its own controller while the third waits
WitnessSecondRunsThirdQueued ==
  /\ processing
  /\ currentCommand = 2 /\ currentAbortController = 2
  /\ ex[1].pc = "done"
  /\ Len(commandQueue) = 1

\* C35: there is at most one pending confirmation; it belongs to the current
\* command, whose execute is waiting at exactly that confirmation with its
\* timer set; and the destructive calls of a pass are decided in their order,
\* a later one never before an earlier one.
OneConfirmationAtATime ==
  /\ Cardinality(pendingConfirmations) <= 1
  /\ \A p \in pendingConfirmations :
       /\ p.commandId = currentCommand
       /\ ex[p.commandId].pc = "confirm"
       /\ ex[p.commandId].confirmId = p.confirmId
       /\ ex[p.commandId].wake \in {"none", "abort"}
       /\ p.confirmId \in timers
  /\ \A c \in {d \in Commands : Running(d)} :
       \A i, j \in DOMAIN ex[c].parsed :
         (/\ i < j
          /\ ex[c].parsed[i].name \in DESTRUCTIVE_TOOLS
          /\ ex[c].parsed[j].approval # "none") => ex[c].parsed[i].approval # "none"

\* the confirmation of the second destructive call of a pass is pending, the
\* first one has been decided by the popup
WitnessSecondConfirmationPending ==
  \E p \in pendingConfirmations :
    /\ ex[p.commandId].k = 2
    /\ ex[p.commandId].parsed[1].approval # "none"
    /\ ex[p.commandId].parsed[1].why = "response"
    /\ ex[p.commandId].parsed[2].approval = "none"

\* C36: once executeCommand has ended for a command (its complete event has
\* been sent), no further progress event of that command is emitted, whatever
\* calls of it are still in flight and whichever command is running.
NoProgressAfterComplete ==
  [][\A c \in Commands : ex[c].pc = "done" => ex'[c].events = ex[c].events]_vars

\* What does hold: a progress event is emitted for a command whose
\* executeCommand has ended only as the tool_result of a call that was in
\* flight, and it changes no command's record of tool calls.
LateProgressIsResultOnly ==
  [][\A c \in Commands :
       ex[c].pc = "done" =>
         /\ Len(ex'[c].events) \in {Len(ex[c].events), Len(ex[c].events) + 1}
         /\ \A n \in (Len(ex[c].events) + 1)..Len(ex'[c].events) :
              ex'[c].events[n].type = "tool_result"
         /\ ex'[c].events # ex[c].events =>
              \A d \in Commands : ex'[d].toolCalls = ex[d].toolCalls]_vars

\* the create_tab calls of command c for one dedup key that are in flight
CreatesInFlight(c, key) ==
  {i \in DOMAIN ex[c].parsed :
     /\ ex[c].parsed[i].st = "create"
     /\ normalizeUrlForDedup(ex[c].parsed[i].url) = key}

\* C37: of the create_tab calls of a command at most one per dedup key is in
\* flight at the capability registry, and at most one tab is open per key,
\* however many calls of a pass share the key and whether or not the first
\* creation fails.
OneCreatePerKey ==
  \A key \in Keys(tabs) \cup {normalizeUrlForDedup(u) : u \in Urls} :
    /\ \A c \in Commands : Cardinality(CreatesInFlight(c, key)) <= 1
    /\ Cardinality({t \in tabs : normalizeUrlForDedup(t.url) = key}) <= 1

\* What does hold: while a creation that did not have to wait is in flight
\* it is the only one for its key, and the calls that are in flight together
\* have all waited for a creation that failed.
OneCreatePerKeyUntilFailure ==
  \A key \in Keys(tabs) \cup {normalizeUrlForDedup(u) : u \in Urls} :
    \A c \in Commands :
      \A i, j \in CreatesInFlight(c, key) :
        i # j => ex[c].parsed[i].first # 0 /\ ex[c].parsed[j].first = ex[c].parsed[i].first

\* the results command c announces in this step for create_tab calls that
\* were answered from the dedup index
NewDedupedCreates(c) ==
  {ex'[c].events[n].result : n \in
     {m \in (Len(ex[c].events) + 1)..Len(ex'[c].events) :
        /\ ex'[c].events[m].type = "tool_result"
        /\ ex'[c].events[m].result.deduped
        /\ ex'[c].events[m].result.switch = "none"}}

\* C38: when a create_tab call is answered with a deduped result, the tab the
\* result names is open.
DedupedTabIsOpen ==
  [][\A c \in Commands : \A r \in NewDedupedCreates(c) :
       \E t \in tabs' : t.id = r.tab]_vars

\* What does hold: the tab a deduped result names is the one the dedup index
\* of the command holds for the key, a tab that has been open.
DedupedTabIsIndexed ==
  [][\A c \in Commands : \A r \in NewDedupedCreates(c) :
       /\ r.tab \in 1..tabCounter
       /\ \E key \in DOMAIN ex[c].createdTabsByUrl : ex[c].createdTabsByUrl[key].id = r.tab]_vars

\* ---- C39: the observer reference across connects and disconnects --------
\* C39: whenever a connected popup port exists, popupPort refers to a
\* connected port; the disconnect of an older port that arrives after a newer
\* port has connected does not detach the newer port.
PopupPortFollowsConnected ==
  connected # {} => popupPort \in connected

\* C39, the part that holds: a port that popupPort refers to is connected.
PopupPortIsConnected ==
  popupPort # 0 => popupPort \in connected

\* C39, the second half: a disconnect that leaves a port connected denies no
\* pending confirmation.
OlderDisconnectDeniesNothing ==
  [][\A p \in connected :
       (connected' = connected \ {p} /\ connected' # {})
         => pendingConfirmations' = pendingConfirmations]_vars


\* ---- C40: the list execute returns and the list the orchestrator keeps ---
\* the call ids of result.toolCalls, in order
ReturnedIds(f) ==
  [i \in DOMAIN f.allToolCalls |-> f.allToolCalls[i].callId]

\* the call ids of state.currentCommand.toolCalls, in order
RecordedIds(f) ==
  [i \in DOMAIN f.toolCalls |-> f.toolCalls[i].callId]

SameToolCalls(f) ==
  /\ ReturnedIds(f) = RecordedIds(f)
  /\ \A i \in DOMAIN f.toolCalls :
       /\ f.toolCalls[i].answered
       /\ f.toolCalls[i].result = f.allToolCalls[i].result

\* C40: on every terminal outcome the list execute returns and the list the
\* orchestrator recorded for the command hold the same call ids in the same
\* order, each with the same result.
ReturnedIsRecorded ==
  \A c \in Commands :
    (ex[c].pc = "returned" /\ ex[c].result.kind # "throw") => SameToolCalls(ex[c])

\* C40, the part that holds: every call execute returns is recorded, in the
\* order of the returned list and with the returned result.
ReturnedIsPartOfRecorded ==
  \A c \in Commands :
    (ex[c].pc = "returned" /\ ex[c].result.kind # "throw") =>
      LET f == ex[c]
      IN /\ Len(f.allToolCalls) <= Len(f.toolCalls)
         /\ \A i \in DOMAIN f.allToolCalls :
              /\ f.toolCalls[i].callId = f.allToolCalls[i].callId
              /\ f.toolCalls[i].answered
              /\ f.toolCalls[i].result = f.allToolCalls[i].result

====
